---- MODULE Spec2Model ----
(***************************************************************************)
(* Ingestion pipeline of djones11/adsp: the adaptive bulk loader           *)
(* (app/services/csv_handler.py), the per-force download                   *)
(* (app/services/stop_search_service.py) and the Celery chord that fans    *)
(* the fetch units out and the insert unit in                              *)
(* (app/tasks/stop_search_tasks.py).                                       *)
(***************************************************************************)
EXTENDS Integers, Sequences, FiniteSets, TLC

VARIABLES
    db,        \* the relational store (committed rows of both tables)
    files,     \* the CSV files under /tmp: path -> rows, or NoFile
    load,      \* one call of CSVHandler.bulk_insert_from_csv and its outcome
    job,       \* ingest_stop_searches: "idle", "dispatched", "setup_failed"
    units,     \* one fetch_stop_search_task per force
    fanin,     \* insert_data_task, the chord's callback
    upstream,  \* what data.police.uk publishes: force -> set of months
    call       \* one call of a function or job looked at on its own

vars == <<db, files, load, job, units, fanin, upstream, call>>

-----------------------------------------------------------------------------
(* Bounds of the model.                                                    *)

MaxRows == 6        \* rows of a short CSV file handed to the loader
MaxMonth == 2       \* months (partitions) the upstream publishes
MaxFileRows == 2    \* rows of a per-force CSV file found by the fan-in

(* Program constants.                                                      *)

BATCH_SIZE == 1000
SplitFactor == 10
MaxRetries == 5
FanInMaxRetries == 5

StopSearchTable == "stop_searches"
FailedRowTable == "failed_rows"
Tables == {StopSearchTable, FailedRowTable}

\* A path with no file, and a file holding a header line and these rows
NoFile == [exists |-> FALSE, rows |-> <<>>]
File(rows) == [exists |-> TRUE, rows |-> rows]
None == "None"
NoCall == [op |-> "none"]

Max(a, b) == IF a >= b THEN a ELSE b

RECURSIVE Concat(_)
Concat(ss) == IF ss = <<>> THEN <<>> ELSE Head(ss) \o Concat(Tail(ss))

Range(s) == {s[i] : i \in 1..Len(s)}

-----------------------------------------------------------------------------
(* The store.  A CSV line carries, besides its columns, what the store and *)
(* the csv module will make of it: bad (COPY rejects a stream that holds   *)
(* it) and noparse (csv.DictReader raises on it).                          *)

EmptyDb == [stop_searches |-> <<>>, failed_rows |-> <<>>]

\* COPY <table> FROM STDIN: any row violating a column constraint aborts
\* the whole streamed call.
CopyFails(rows) == \E i \in 1..Len(rows) : rows[i].bad

\* str(e) of the exception copy_expert raised for this stream
CopyError(rows) ==
    [error |-> "copy_failed",
     line |-> CHOOSE i \in 1..Len(rows) :
                 rows[i].bad /\ \A j \in 1..(i - 1) : ~rows[j].bad]

\* str(e) of a COPY that failed for a reason of its own
TransientError == [error |-> "copy_failed", line |-> 0]

\* The columns of a CSV line, as the store keeps them
Columns(line) == [c \in (DOMAIN line) \ {"bad", "noparse"} |-> line[c]]

\* The mapped attributes of the FailedRow model: the class declares no
\* "source" column.
FailedRowAttrs == {"id", "raw_data", "reason", "created_at"}

\* FailedRow(**kw): SQLAlchemy's declarative constructor raises TypeError
\* for a keyword that is no attribute of the class.
FailedRowCtorOk(kw) == kw \subseteq FailedRowAttrs

\* CSVHandler._handle_failed_row: what becomes of a single rejected line.
\* quar: FailedRow objects added to the session; dropped: lines only logged.
HandleFailedRow(row, error_msg, table_name) ==
    IF table_name = StopSearchTable
    THEN IF row.noparse \/ ~FailedRowCtorOk({"raw_data", "reason", "source"})
         THEN [quar |-> <<>>, dropped |-> <<row>>]
         ELSE [quar |-> <<[raw_data |-> Columns(row), reason |-> error_msg,
                          source |-> table_name]>>,
               dropped |-> <<>>]
    ELSE [quar |-> <<>>, dropped |-> <<row>>]

\* A slice that leaves out the last row of a sub-batch of several rows
SliceShort(rows, i, chunk_size) ==
    SubSeq(rows, i + 1, IF chunk_size = 1 THEN i + 1
                        ELSE IF i + chunk_size - 1 <= Len(rows)
                        THEN i + chunk_size - 1 ELSE Len(rows))

\* rows[i : i + chunk_size], i counted from 0
Slice(rows, i, chunk_size) ==
    SubSeq(rows, i + 1, IF i + chunk_size <= Len(rows)
                        THEN i + chunk_size ELSE Len(rows))

\* CSVHandler._insert_batch: one COPY of the batch inside a savepoint; on
\* failure roll back and split in ten, or hand a single row to
\* _handle_failed_row.  calls: the size and result of every COPY, in order.
\* transient: this COPY fails for a reason of its own, whatever its rows.
RECURSIVE InsertBatch(_, _, _)
RECURSIVE InsertSubBatches(_, _, _, _)

InsertSubBatches(rows, i, chunk_size, table_name) ==
    IF i >= Len(rows)
    THEN [copied |-> <<>>, quar |-> <<>>, dropped |-> <<>>, calls |-> <<>>,
          splits |-> <<>>, parts |-> <<>>]
    ELSE LET sub_batch == Slice(rows, i, chunk_size)
             first == InsertBatch(sub_batch, table_name, FALSE)
             rest == InsertSubBatches(rows, i + chunk_size, chunk_size,
                                      table_name)
         IN [copied |-> first.copied \o rest.copied,
             quar |-> first.quar \o rest.quar,
             dropped |-> first.dropped \o rest.dropped,
             calls |-> first.calls \o rest.calls,
             splits |-> first.splits \o rest.splits,
             parts |-> <<Len(sub_batch)>> \o rest.parts]

\* A batch whose failing COPY of a single row is made a second time
InsertBatchTwice(rows, table_name, transient) ==
    IF ~CopyFails(rows) /\ ~transient
    THEN [copied |-> rows, quar |-> <<>>, dropped |-> <<>>,
          calls |-> <<[n |-> Len(rows), ok |-> TRUE]>>, splits |-> <<>>]
    ELSE LET this == <<[n |-> Len(rows), ok |-> FALSE]>>
         IN IF Len(rows) = 1
            THEN LET h == HandleFailedRow(rows[1], TransientError, table_name)
                 IN [copied |-> <<>>, quar |-> h.quar, dropped |-> h.dropped,
                     calls |-> this \o this, splits |-> <<>>]
            ELSE LET chunk_size == Max(1, Len(rows) \div SplitFactor)
                     sub == InsertSubBatches(rows, 0, chunk_size, table_name)
                 IN [copied |-> sub.copied, quar |-> sub.quar,
                     dropped |-> sub.dropped, calls |-> this \o sub.calls,
                     splits |-> <<[n |-> Len(rows), parts |-> sub.parts]>>
                                \o sub.splits]

InsertBatch(rows, table_name, transient) ==
    IF ~CopyFails(rows) /\ ~transient
    THEN [copied |-> rows, quar |-> <<>>, dropped |-> <<>>,
          calls |-> <<[n |-> Len(rows), ok |-> TRUE]>>, splits |-> <<>>]
    ELSE LET this == <<[n |-> Len(rows), ok |-> FALSE]>>
         IN IF Len(rows) = 1
            THEN LET h == HandleFailedRow(rows[1],
                                          IF CopyFails(rows)
                                          THEN CopyError(rows)
                                          ELSE TransientError,
                                          table_name)
                 IN [copied |-> <<>>, quar |-> h.quar, dropped |-> h.dropped,
                     calls |-> this, splits |-> <<>>]
            ELSE LET chunk_size == Max(1, Len(rows) \div SplitFactor)
                     sub == InsertSubBatches(rows, 0, chunk_size, table_name)
                 IN [copied |-> sub.copied, quar |-> sub.quar,
                     dropped |-> sub.dropped, calls |-> this \o sub.calls,
                     splits |-> <<[n |-> Len(rows), parts |-> sub.parts]>>
                                \o sub.splits]

StoredRows(lines) == [i \in 1..Len(lines) |-> Columns(lines[i])]

\* A chunking that forgets the lines left over after the last full batch
RECURSIVE BatchesFullOnly(_)
BatchesFullOnly(lines) ==
    IF Len(lines) < BATCH_SIZE THEN <<>>
    ELSE <<SubSeq(lines, 1, BATCH_SIZE)>>
         \o BatchesFullOnly(SubSeq(lines, BATCH_SIZE + 1, Len(lines)))

\* for line in f: ... if len(batch) >= BATCH_SIZE: the consecutive batches
RECURSIVE Batches(_)
Batches(lines) ==
    IF Len(lines) = 0 THEN <<>>
    ELSE IF Len(lines) <= BATCH_SIZE THEN <<lines>>
    ELSE <<SubSeq(lines, 1, BATCH_SIZE)>>
         \o Batches(SubSeq(lines, BATCH_SIZE + 1, Len(lines)))

RECURSIVE InsertBatches(_, _, _)
InsertBatches(batches, table_name, transient) ==
    IF batches = <<>>
    THEN [copied |-> <<>>, quar |-> <<>>, dropped |-> <<>>, calls |-> <<>>,
          splits |-> <<>>]
    ELSE LET first == InsertBatch(Head(batches), table_name, transient)
             rest == InsertBatches(Tail(batches), table_name, transient)
         IN [copied |-> first.copied \o rest.copied,
             quar |-> first.quar \o rest.quar,
             dropped |-> first.dropped \o rest.dropped,
             calls |-> first.calls \o rest.calls,
             splits |-> first.splits \o rest.splits]

\* What the environment does to one load call besides rejecting bad rows:
\*   "copy"   the COPY of the whole file fails for a reason of its own
\*   "conn"   db.connection() raises (storage unavailable)
\*   "commit" db.commit() raises
Faults == {"none", "copy", "conn", "commit"}

\*   "batch"  the COPY of the whole file and the COPY of every batch of
\*            BATCH_SIZE lines or fewer fail for reasons of their own; the
\*            COPY of a sub-batch does not
LoadFaults == Faults \cup {"batch"}

\* A commit that replaces the rows of the table by the copied ones
CommitReplacing(store, table_name, copied, quar) ==
    [store EXCEPT ![table_name] = StoredRows(copied),
                  !.failed_rows = @ \o quar]

\* db.commit(): the copied rows and the session's FailedRow objects
CommitLoad(store, table_name, copied, quar) ==
    [store EXCEPT ![table_name] = @ \o StoredRows(copied),
                  !.failed_rows = @ \o quar]

NoLoad == [copied |-> <<>>, quar |-> <<>>, dropped |-> <<>>, calls |-> <<>>,
           batches |-> <<>>, splits |-> <<>>]

\* The sizes of the batches handed to _insert_batch by the chunked path
BatchSizes(file) == [i \in 1..Len(Batches(file)) |-> Len(Batches(file)[i])]

\* CSVHandler.bulk_insert_from_csv.  The result: the store afterwards, whether
\* the call raised, the path taken and what became of every line.
BulkInsertFromCsv(store, f, table_name, fault) ==
    LET file == f.rows IN
    IF ~f.exists
    THEN [db |-> store, raised |-> FALSE, path |-> "missing", handed |-> <<>>]
         @@ NoLoad
    ELSE IF fault = "conn"
    THEN [db |-> store, raised |-> TRUE, path |-> "conn", handed |-> file]
         @@ NoLoad
    ELSE LET fullOk == ~CopyFails(file)
                       /\ fault \notin {"copy", "commit", "batch"}
             full == <<[n |-> Len(file),
                        ok |-> ~CopyFails(file)
                               /\ fault \notin {"copy", "batch"}]>>
         IN IF fullOk
            THEN [db |-> CommitLoad(store, table_name, file, <<>>),
                  raised |-> FALSE, path |-> "full", handed |-> file,
                  copied |-> file, quar |-> <<>>, dropped |-> <<>>,
                  calls |-> full, batches |-> <<>>, splits |-> <<>>]
            ELSE LET r == InsertBatches(Batches(file), table_name,
                                        fault = "batch")
                 IN IF fault = "commit"
                    THEN [db |-> store, raised |-> TRUE, path |-> "chunked",
                          handed |-> file, copied |-> <<>>, quar |-> <<>>,
                          dropped |-> <<>>, calls |-> full \o r.calls,
                          batches |-> BatchSizes(file),
                          splits |-> r.splits]
                    ELSE [db |-> CommitLoad(store, table_name, r.copied, r.quar),
                          raised |-> FALSE, path |-> "chunked",
                          handed |-> file, copied |-> r.copied,
                          quar |-> r.quar, dropped |-> r.dropped,
                          calls |-> full \o r.calls,
                          batches |-> BatchSizes(file),
                          splits |-> r.splits]

-----------------------------------------------------------------------------
(* The files and the forces.                                               *)

\* settings.POLICE_FORCES: the forces one run covers
Forces == {"f1", "f2"}
ForceSeq == <<"f1", "f2">>

\* os.path.join(output_dir, f"valid_{force}.csv") and f"failed_{force}.csv"
ValidPath(force) == <<"valid", force>>
FailedPath(force) == <<"failed", force>>

\* insert_rows: final_csv_path = "/tmp/final_path.csv"
FinalPath == <<"final", "path">>

Paths == {ValidPath(f) : f \in Forces} \cup {FailedPath(f) : f \in Forces}
         \cup {FinalPath}

NoFiles == [p \in Paths |-> NoFile]

\* A line of a valid_<force>.csv file
ValidLine(force, date, n, bad, noparse) ==
    [force |-> force, date |-> date, n |-> n, bad |-> bad, noparse |-> noparse]

\* A line of a failed_<force>.csv file (FAILED_ROW_COLUMNS)
FailedLine(force, date, n, bad, noparse) ==
    [raw_data |-> [force |-> force, date |-> date, n |-> n],
     reason |-> [error |-> "validation", line |-> 0],
     source |-> None, bad |-> bad, noparse |-> noparse]

-----------------------------------------------------------------------------
(* One call of the bulk loader on a file of up to MaxRows lines.           *)

RECURSIVE SubsetsUpTo(_, _)
SubsetsUpTo(S, k) ==
    IF k = 0 THEN {{}}
    ELSE LET prev == SubsetsUpTo(S, k - 1)
         IN prev \cup {s \cup {x} : s \in prev, x \in S}

\* The rows of a file that the store rejects: none, one or two of them
BadSets(S) == SubsetsUpTo(S, 2)

LoadLine(table_name, i, bad, noparse) ==
    IF table_name = StopSearchTable
    THEN ValidLine("f1", 1, i, bad, noparse)
    ELSE FailedLine("f1", 1, i, bad, noparse)

\* The sizes of the files loaded: the short ones, and one long enough for
\* a failing batch to be split into sub-batches of more than one row
DeepRows == 2 * SplitFactor + MaxRows
LoadSizes == (0..MaxRows) \cup {DeepRows}

\* Rows the store held before the call
PreDb ==
    [stop_searches |-> <<Columns(ValidLine("f1", 1, 0, FALSE, FALSE))>>,
     failed_rows |-> <<Columns(FailedLine("f1", 1, 0, FALSE, FALSE))>>]

NoUpstream == [f \in Forces |-> {}]
IdleLoad == [phase |-> "idle"]

LoadInit ==
    /\ db = PreDb
    /\ \E table_name \in Tables, n \in LoadSizes, fault \in LoadFaults :
         \E bad \in BadSets(1..n) :
           \E np \in SubsetsUpTo(bad, 1) :
             /\ files = [NoFiles EXCEPT ![FinalPath] =
                           File([i \in 1..n |->
                              LoadLine(table_name, i, i \in bad, i \in np)])]
             /\ load = [phase |-> "ready", table |-> table_name,
                        fault |-> fault]
    /\ job = "idle"
    /\ units = [f \in Forces |-> [state |-> "idle"]]
    /\ fanin = [state |-> "idle"]
    /\ upstream = NoUpstream
    /\ call = NoCall

\* CSVHandler.bulk_insert_from_csv(db, "/tmp/final_path.csv", columns, table)
LoadRun ==
    /\ load.phase = "ready"
    /\ LET out == BulkInsertFromCsv(db, files[FinalPath], load.table,
                                    load.fault)
       IN /\ db' = out.db
          /\ load' = [phase |-> "done", table |-> load.table,
                      fault |-> load.fault, before |-> db, out |-> out]
    /\ UNCHANGED <<call, files, job, units, fanin, upstream>>

LoadNext == LoadRun

SpecLoad == LoadInit /\ [][LoadNext]_vars

\* The same call on files around one and two batches of BATCH_SIZE lines,
\* with rejected rows at the ends of the batches
ChunkSizes == {BATCH_SIZE - 1, BATCH_SIZE, BATCH_SIZE + 1, BATCH_SIZE + 5,
               2 * BATCH_SIZE, 2 * BATCH_SIZE + 5}

ChunkBad(n) == SubsetsUpTo({1, BATCH_SIZE, BATCH_SIZE + 1, n} \cap (1..n), 2)

ChunkInit ==
    /\ db = PreDb
    /\ \E table_name \in Tables, n \in ChunkSizes, fault \in LoadFaults :
         \E bad \in ChunkBad(n) :
           /\ files = [NoFiles EXCEPT ![FinalPath] =
                         File([i \in 1..n |->
                            LoadLine(table_name, i, i \in bad, FALSE)])]
           /\ load = [phase |-> "ready", table |-> table_name,
                      fault |-> fault]
    /\ job = "idle"
    /\ units = [f \in Forces |-> [state |-> "idle"]]
    /\ fanin = [state |-> "idle"]
    /\ upstream = NoUpstream
    /\ call = NoCall

SpecChunk == ChunkInit /\ [][LoadNext]_vars

\* One call of _insert_batch on a batch of its own: the sizes around the
\* steps of the splitting, and which of its rows the store rejects
BisectSizes == {1, 2, 5, SplitFactor - 1, SplitFactor, SplitFactor + 1,
                2 * SplitFactor - 1, 2 * SplitFactor, 2 * SplitFactor + 5,
                SplitFactor * SplitFactor - 1, SplitFactor * SplitFactor,
                SplitFactor * SplitFactor + 1, BATCH_SIZE - 1, BATCH_SIZE}

BisectPatterns == {"none", "all", "first", "last", "alternate", "tenth"}

\* Whether row i of n is rejected under a pattern; under "all" every COPY
\* of the call fails
BisectBad(pattern, i, n) ==
    CASE pattern = "none" -> FALSE
      [] pattern = "all" -> TRUE
      [] pattern = "first" -> i = 1
      [] pattern = "last" -> i = n
      [] pattern = "alternate" -> i % 2 = 1
      [] pattern = "tenth" -> i % SplitFactor = 0

BisectInit ==
    /\ db = PreDb
    /\ \E table_name \in Tables, n \in BisectSizes, transient \in BOOLEAN,
          pattern \in BisectPatterns :
          /\ files = [NoFiles EXCEPT ![FinalPath] =
                        File([i \in 1..n |->
                           LoadLine(table_name, i, BisectBad(pattern, i, n),
                                    FALSE)])]
          /\ load = [phase |-> "batch", table |-> table_name,
                     transient |-> transient, pattern |-> pattern]
    /\ job = "idle"
    /\ units = [f \in Forces |-> [state |-> "idle"]]
    /\ fanin = [state |-> "idle"]
    /\ upstream = NoUpstream
    /\ call = NoCall

\* CSVHandler._insert_batch(db, rows, header, columns_str, table_name): the
\* call and everything it calls, until it returns
BisectRun ==
    /\ load.phase = "batch"
    /\ load' = [phase |-> "returned", table |-> load.table,
                transient |-> load.transient, pattern |-> load.pattern,
                out |-> InsertBatch(files[FinalPath].rows, load.table,
                                    load.transient)]
    /\ UNCHANGED <<call, db, files, job, units, fanin, upstream>>

BisectNext == BisectRun

SpecBisect == BisectInit /\ [][BisectNext]_vars

-----------------------------------------------------------------------------
(* Partition selection (PoliceStopSearchService).                          *)

Months == 1..MaxMonth

RECURSIVE SortedSeq(_)
SortedSeq(S) ==
    IF S = {} THEN <<>>
    ELSE LET m == CHOOSE x \in S : \A y \in S : x <= y
         IN <<m>> \o SortedSeq(S \ {m})

\* The earliest month of the force's rows in place of the latest
EarliestMonth(store, force) ==
    LET ds == {store.stop_searches[k].date :
                 k \in {j \in 1..Len(store.stop_searches) :
                          store.stop_searches[j].force = force}}
    IN IF ds = {} THEN {} ELSE {CHOOSE d \in ds : \A e \in ds : d <= e}

\* _get_latest_datetime: func.max(StopSearch.datetime) of the force's rows,
\* as the set of its month keys ({} when the force has no row)
LatestMonth(store, force) ==
    LET ds == {store.stop_searches[k].date :
                 k \in {j \in 1..Len(store.stop_searches) :
                          store.stop_searches[j].force = force}}
    IN IF ds = {} THEN {} ELSE {CHOOSE d \in ds : \A e \in ds : e <= d}

\* _get_available_dates: the sorted months per force, or {} for every force
\* when the availability request raised
GetAvailableDates(up, requestOk) ==
    [f \in Forces |-> IF requestOk THEN SortedSeq(up[f]) ELSE <<>>]

\* A selection that also keeps the month of the latest stored row
GetDatesFromLatest(store, up, requestOk, force) ==
    LET available_dates == GetAvailableDates(up, requestOk)[force]
        latest == LatestMonth(store, force)
        Keep(date) == ~(latest # {} /\ \A l \in latest : date < l)
    IN IF available_dates = <<>> THEN <<>>
       ELSE SelectSeq(available_dates, Keep)

\* A selection that ignores the stored rows
GetDatesAvailable(store, up, requestOk, force) ==
    GetAvailableDates(up, requestOk)[force]

\* _get_dates_to_process
GetDatesToProcess(store, up, requestOk, force) ==
    LET available_dates == GetAvailableDates(up, requestOk)[force]
        latest == LatestMonth(store, force)
        Keep(date) == ~(latest # {} /\ \A l \in latest : date <= l)
    IN IF available_dates = <<>> THEN <<>>
       ELSE SelectSeq(available_dates, Keep)

-----------------------------------------------------------------------------
(* One download (PoliceStopSearchService.download_stop_search_data).       *)

\* The page the upstream serves for one force and month, after
\* _process_stop_search_data: its valid rows and its rejected rows
Page(force, date) ==
    [valid |-> <<ValidLine(force, date, 1, FALSE, FALSE)>>,
     failed |-> <<FailedLine(force, date, 2, FALSE, FALSE)>>]

\* The parameters of CSVHandler.write_rows(file_path, objects, columns)
WriteRowsParams == {"file_path", "objects", "columns"}

\* A Python call binds only when every keyword names a parameter; otherwise
\* it raises TypeError before the body runs.
CallBinds(params, keywords) == keywords \subseteq params

\* The body of CSVHandler.write_rows: open(file_path, "w"), header, rows
WriteRows(fs, path, objects) == [fs EXCEPT ![path] = File(objects)]

NullDates == [null |-> TRUE, list |-> <<>>]
SomeDates(l) == [null |-> FALSE, list |-> l]

NullResult == [null |-> TRUE, valid |-> <<>>, failed |-> <<>>]
PathsResult(force) ==
    [null |-> FALSE, valid |-> ValidPath(force), failed |-> FailedPath(force)]

\* download_stop_search_data reaches _get_dates_to_process, and with it the
\* request of _get_available_dates, when it is given no dates
QueriesAvailability(dates) == dates.null \/ dates.list = <<>>

\* if dates: dates_to_fetch = dates else: self._get_dates_to_process(force)
DatesToFetch(store, up, requestOk, force, dates) ==
    IF ~dates.null /\ dates.list # <<>> THEN dates.list
    ELSE GetDatesToProcess(store, up, requestOk, force)

\* _fetch_stop_search_data(force, date, client): the lists of
\* _process_stop_search_data, or the exception of the request, logged and
\* raised again.  As asyncio.gather(..., return_exceptions=True) lists it.
FetchStopSearchData(force, date, requestRaises) ==
    IF requestRaises
    THEN [date |-> date, kind |-> "raised", valid |-> <<>>, failed |-> <<>>]
    ELSE [date |-> date, kind |-> "returned",
          valid |-> Page(force, date).valid,
          failed |-> Page(force, date).failed]

\* From the results of asyncio.gather(..., return_exceptions=True) to the
\* end of download_stop_search_data.  raisedDates: the months whose fetch
\* raised.  kind: "paths" (returned), or the exception raised.
DownloadFinish(fs, force, dates_to_fetch, raisedDates) ==
    LET results == [i \in 1..Len(dates_to_fetch) |->
                      FetchStopSearchData(force, dates_to_fetch[i],
                                          dates_to_fetch[i] \in raisedDates)]
        IsException(result) == result.kind = "raised"
        failed == SelectSeq(results, IsException)
        failed_dates == [i \in 1..Len(failed) |-> failed[i].date]
        all_valid_objects ==
            Concat([i \in 1..Len(results) |-> results[i].valid])
        all_failed_rows ==
            Concat([i \in 1..Len(results) |-> results[i].failed])
    IN IF ~CallBinds(WriteRowsParams,
                     {"file_path", "objects", "columns", "mode"})
       THEN [kind |-> "TypeError", files |-> fs, failed_dates |-> <<>>,
             results |-> results]
       ELSE LET written ==
                    WriteRows(WriteRows(fs, ValidPath(force),
                                        all_valid_objects),
                              FailedPath(force), all_failed_rows)
            IN IF failed_dates # <<>>
               THEN [kind |-> "PartialDownloadError", files |-> written,
                     failed_dates |-> failed_dates, results |-> results]
               ELSE [kind |-> "paths", files |-> written,
                     failed_dates |-> <<>>, results |-> results]

-----------------------------------------------------------------------------
(* The fetch unit (fetch_stop_search_task) and Celery's retry.             *)

\* Task.retry(exc=e, ...) of a task with max_retries=MaxRetries, called by a
\* worker: it raises Retry (the task is re-queued with retries + 1) while
\* retries + 1 <= max_retries; past the ceiling it raises exc when one is
\* given, and MaxRetriesExceededError only when none is given.
TaskRetry(retries, excGiven) ==
    IF retries + 1 > MaxRetries
    THEN IF excGiven THEN "exc" ELSE "MaxRetriesExceededError"
    ELSE "Retry"

\* _retry_attempt(self, force, e, dates): self.retry(exc=e, ...,
\* args=[force, dates]) under except MaxRetriesExceededError.
\* "requeued": Retry left the task; "raised": e left the task;
\* "returned": the except clause logged and the caller returns None.
RetryAttempt(unit, dates) ==
    LET r == TaskRetry(unit.retries, TRUE)
    IN IF r = "Retry"
       THEN [unit EXCEPT !.state = "queued", !.retries = @ + 1,
                         !.dates = dates, !.selected = <<>>]
       ELSE IF r = "MaxRetriesExceededError"
       THEN [unit EXCEPT !.state = "returned", !.result = NullResult,
                         !.selected = <<>>]
       ELSE [unit EXCEPT !.state = "raised", !.selected = <<>>]

NoAttempt ==
    [selected |-> <<>>, raised |-> {}, kind |-> "none", failed_dates |-> <<>>,
     retries |-> 0, args |-> NullDates, available |-> TRUE,
     results |-> <<>>]

\* queries: the requests for the available partitions the unit has made
NewUnit ==
    [state |-> "queued", retries |-> 0, dates |-> NullDates,
     selected |-> <<>>, result |-> NullResult, last |-> NoAttempt,
     queries |-> 0]

IdleUnit == [NewUnit EXCEPT !.state = "idle"]


-----------------------------------------------------------------------------
(* The fan-in unit (insert_data_task) and what it calls.                   *)

\* CSVHandler.merge_csvs(output_path, input_paths, columns, cleanup=True):
\* the rows of every input that exists, in order; each merged input removed
RECURSIVE MergeInputs(_, _, _)
MergeInputs(fs, rows, input_paths) ==
    IF input_paths = <<>> THEN [files |-> fs, rows |-> rows]
    ELSE LET path == Head(input_paths)
         IN IF fs[path].exists
            THEN MergeInputs([fs EXCEPT ![path] = NoFile],
                             rows \o fs[path].rows, Tail(input_paths))
            ELSE MergeInputs(fs, rows, Tail(input_paths))

\* A merge that reads its first input only
MergeFirstOnly(fs, output_path, input_paths) ==
    LET m == MergeInputs(fs, <<>>, SubSeq(input_paths, 1, 1))
    IN [m.files EXCEPT ![output_path] = File(m.rows)]

\* A merge that leaves its inputs in place (cleanup=False)
MergeKeepingInputs(fs, output_path, input_paths) ==
    LET m == MergeInputs(fs, <<>>, input_paths)
    IN [fs EXCEPT ![output_path] = File(m.rows)]

MergeCsvs(fs, output_path, input_paths) ==
    LET m == MergeInputs(fs, <<>>, input_paths)
    IN [m.files EXCEPT ![output_path] = File(m.rows)]

\* insert_rows returning without a call of the loader.  loads: the calls of
\* bulk_insert_from_csv made, each with its target and the rows handed to it
NotCalled(store, fs) ==
    [db |-> store, files |-> fs, raised |-> FALSE, loads |-> <<>>]

\* insert_rows after merge_csvs: count the lines of the merged file and call
\* the loader when there is one
InsertMerged(store, merged, table_name, fault) ==
    IF Len(merged[FinalPath].rows) > 0
    THEN LET out == BulkInsertFromCsv(store, merged[FinalPath], table_name,
                                      fault)
         IN [db |-> out.db, files |-> merged, raised |-> out.raised,
             loads |-> <<[table |-> table_name, handed |-> out.handed,
                          raised |-> out.raised]>>]
    ELSE NotCalled(store, merged)

\* insert_rows(db, csv_paths, columns, table_name)
InsertRows(store, fs, csv_paths, table_name, fault) ==
    IF csv_paths = <<>> THEN NotCalled(store, fs)
    ELSE InsertMerged(store, MergeCsvs(fs, FinalPath, csv_paths), table_name,
                      fault)

\* A listing of paths that stops at the first null result
RECURSIVE PathsUntilNull(_, _)
PathsUntilNull(results, field) ==
    IF results = <<>> \/ Head(results).null THEN <<>>
    ELSE IF Head(results)[field] = <<>>
         THEN PathsUntilNull(Tail(results), field)
         ELSE <<Head(results)[field]>> \o PathsUntilNull(Tail(results), field)

\* for result in results: if result: ... the paths of the non-null results
RECURSIVE PathsOf(_, _)
PathsOf(results, field) ==
    IF results = <<>> THEN <<>>
    ELSE IF Head(results).null \/ Head(results)[field] = <<>>
         THEN PathsOf(Tail(results), field)
         ELSE <<Head(results)[field]>> \o PathsOf(Tail(results), field)

\* What one execution of insert_data_task leaves: the store, the files,
\* whether it raised and the calls of the loader it made.  first, second:
\* the two insert_rows calls; the second is not reached when the first raised.
InsertDataEnd(first, second) ==
    IF first.raised
    THEN [db |-> first.db, files |-> first.files, raised |-> TRUE,
          loads |-> first.loads]
    ELSE [db |-> second.db, files |-> second.files,
          raised |-> second.raised, loads |-> first.loads \o second.loads]

\* insert_rows(db, failed_csv_paths, FAILED_ROW_COLUMNS, "failed_rows"),
\* reached when the first insert_rows returned
InsertFailedRows(first, failed_csv_paths, fault2) ==
    InsertDataEnd(first, InsertRows(first.db, first.files, failed_csv_paths,
                                    FailedRowTable, fault2))

\* The body of insert_data_task(self, results).  fault1, fault2: what the
\* environment does to the load of the valid rows and of the rejected rows.
InsertDataTask(store, fs, results, fault1, fault2) ==
    InsertFailedRows(InsertRows(store, fs, PathsOf(results, "valid"),
                                StopSearchTable, fault1),
                     PathsOf(results, "failed"), fault2)

\* autoretry_for=(Exception,), retry_kwargs={"max_retries": 5}: the wrapper
\* calls self.retry(exc=exc) for an exception the body raised
AutoRetry(retries) ==
    IF retries + 1 > FanInMaxRetries THEN "failed" ELSE "retry"

\* A chord that calls back as soon as one header task has returned
ChordReadyAny(us) == \E f \in Forces : us[f].state = "returned"

\* chord(header)(callback): the callback runs once every header task has
\* returned; the results are listed in the order of the group
ChordReady(us) == \A f \in Forces : us[f].state = "returned"

ChordResults(us) == [i \in 1..Len(ForceSeq) |-> us[ForceSeq[i]].result]

IdleFanIn == [state |-> "idle", retries |-> 0, results |-> <<>>, runs |-> <<>>]

-----------------------------------------------------------------------------
(* A job run: ingest_stop_searches, the fetch units, the chord.            *)

\* The store before the run: per force no row, or rows up to some month
WatermarkRows(wm) ==
    Concat([i \in 1..Len(ForceSeq) |->
              IF wm[ForceSeq[i]] = 0 THEN <<>>
              ELSE <<Columns(ValidLine(ForceSeq[i], wm[ForceSeq[i]], 0,
                                       FALSE, FALSE))>>])

Init ==
    /\ \E wm \in [Forces -> 0..MaxMonth] :
          db = [stop_searches |-> WatermarkRows(wm), failed_rows |-> <<>>]
    /\ upstream \in [Forces -> SUBSET Months]
    /\ files = NoFiles
    /\ load = IdleLoad
    /\ job = "idle"
    /\ units = [f \in Forces |-> IdleUnit]
    /\ fanin = IdleFanIn
    /\ call = NoCall

\* ingest_stop_searches: chord(group(fetch_stop_search_task.s(force) ...))
\* (insert_data_task.s()) is built and sent
Ingest ==
    /\ job = "idle"
    /\ job' = "dispatched"
    /\ units' = [f \in Forces |-> NewUnit]
    /\ fanin' = [IdleFanIn EXCEPT !.state = "waiting"]
    /\ UNCHANGED <<call, db, files, load, upstream>>

\* A failed set-up that publishes every fetch unit all the same
PublishedAll(sent) == [f \in Forces |-> NewUnit]

\* The fetch units after a set-up that raised: group.apply_async publishes
\* the header tasks one by one, so those sent before the error are queued
PublishedUnits(sent) ==
    [f \in Forces |-> IF f \in sent THEN NewUnit ELSE IdleUnit]

\* ingest_stop_searches when building or sending the chord raises: the
\* except clause logs the error.  sent: the header tasks already published
\* (none when the error comes from building the group or the chord).
IngestFails ==
    /\ job = "idle"
    /\ job' = "setup_failed"
    /\ \E sent \in (SUBSET Forces) \ {Forces} : units' = PublishedUnits(sent)
    /\ UNCHANGED <<call, db, files, load, fanin, upstream>>

\* A fetch unit that stores a row of its own
FetchStartWriting(f) ==
    /\ job \in {"dispatched", "setup_failed"}
    /\ units[f].state = "queued"
    /\ units' = [units EXCEPT ![f] = [@ EXCEPT !.state = "returned",
                                               !.result = NullResult]]
    /\ db' = [db EXCEPT !.stop_searches =
                 Append(@, Columns(ValidLine(f, 1, 0, FALSE, FALSE)))]
    /\ UNCHANGED <<call, files, load, job, fanin, upstream>>

\* fetch_stop_search_task up to asyncio.gather: the dates are selected; with
\* none to fetch download_stop_search_data returns None and so does the task
FetchStart(f) ==
    /\ job \in {"dispatched", "setup_failed"}
    /\ units[f].state = "queued"
    /\ \E requestOk \in BOOLEAN :
         LET u == units[f]
             dates_to_fetch == DatesToFetch(db, upstream, requestOk, f,
                                            u.dates)
             att == [selected |-> dates_to_fetch, raised |-> {},
                     kind |-> "None", failed_dates |-> <<>>,
                     retries |-> u.retries, args |-> u.dates,
                     available |-> requestOk, results |-> <<>>]
             queries == IF QueriesAvailability(u.dates) THEN u.queries + 1
                        ELSE u.queries
         IN units' = [units EXCEPT ![f] =
                IF dates_to_fetch = <<>>
                THEN [u EXCEPT !.state = "returned", !.result = NullResult,
                               !.last = att, !.queries = queries]
                ELSE [u EXCEPT !.state = "fetching",
                               !.selected = dates_to_fetch,
                               !.queries = queries]]
    /\ UNCHANGED <<call, db, files, load, job, fanin, upstream>>

\* fetch_stop_search_task from the results of asyncio.gather to its end:
\* the rest of download_stop_search_data, the except clauses, the retry
FetchFinish(f) ==
    /\ job \in {"dispatched", "setup_failed"}
    /\ units[f].state = "fetching"
    /\ \E raisedDates \in SUBSET Range(units[f].selected) :
         LET u == units[f]
             d == DownloadFinish(files, f, u.selected, raisedDates)
             att == [selected |-> u.selected, raised |-> raisedDates,
                     kind |-> d.kind, failed_dates |-> d.failed_dates,
                     retries |-> u.retries, args |-> u.dates,
                     available |-> TRUE, results |-> d.results]
             next == IF d.kind = "paths"
                     THEN [u EXCEPT !.state = "returned",
                                    !.result = PathsResult(f),
                                    !.selected = <<>>]
                     ELSE IF d.kind = "PartialDownloadError"
                     THEN RetryAttempt(u, SomeDates(d.failed_dates))
                     ELSE RetryAttempt(u, u.dates)
         IN /\ files' = d.files
            /\ units' = [units EXCEPT ![f] = [next EXCEPT !.last = att]]
    /\ UNCHANGED <<call, db, load, job, fanin, upstream>>

\* A header task that failed: the chord is in error and its callback is
\* never called
ChordError ==
    /\ job = "dispatched"
    /\ fanin.state = "waiting"
    /\ \E f \in Forces : units[f].state = "raised"
    /\ fanin' = [fanin EXCEPT !.state = "chord_error"]
    /\ UNCHANGED <<call, db, files, load, job, units, upstream>>

\* The end of one execution of insert_data_task: what it did (r), and the
\* retry that autoretry_for asks for when it raised
FanInEnd(results, r) ==
    /\ db' = r.db
    /\ files' = r.files
    /\ fanin' =
         [state |-> IF r.raised THEN AutoRetry(fanin.retries) ELSE "done",
          retries |-> IF r.raised /\ AutoRetry(fanin.retries) = "retry"
                      THEN fanin.retries + 1 ELSE fanin.retries,
          results |-> results,
          runs |-> Append(fanin.runs, [loads |-> r.loads,
                                       raised |-> r.raised])]

\* The chord calls insert_data_task with the results of the header
FanInRun ==
    /\ job = "dispatched"
    /\ fanin.state = "waiting"
    /\ ChordReady(units)
    /\ \E fault1 \in Faults, fault2 \in Faults :
         FanInEnd(ChordResults(units),
                  InsertDataTask(db, files, ChordResults(units), fault1,
                                 fault2))
    /\ UNCHANGED <<call, load, job, units, upstream>>

\* A retry of insert_data_task: the same task, called with the same results
FanInRetry ==
    /\ job = "dispatched"
    /\ fanin.state = "retry"
    /\ \E fault1 \in Faults, fault2 \in Faults :
         FanInEnd(fanin.results,
                  InsertDataTask(db, files, fanin.results, fault1, fault2))
    /\ UNCHANGED <<call, load, job, units, upstream>>

Next ==
    \/ Ingest
    \/ IngestFails
    \/ \E f \in Forces : FetchStart(f)
    \/ \E f \in Forces : FetchFinish(f)
    \/ ChordError
    \/ FanInRun

Spec == Init /\ [][Next]_vars

\* The broker delivers every task that is queued and a worker runs it
FairSpec ==
    /\ Spec
    /\ WF_vars(Ingest \/ IngestFails)
    /\ \A f \in Forces : WF_vars(FetchStart(f)) /\ WF_vars(FetchFinish(f))
    /\ WF_vars(ChordError)
    /\ WF_vars(FanInRun)

-----------------------------------------------------------------------------
(* insert_data_task on its own: called with any list of results, one per   *)
(* force, and the files those results name.                                *)

\* The lines write_rows put into valid_<force>.csv: n of them, those in bad
\* rejected by the store; and into failed_<force>.csv
ValidFile(force, n, bad) ==
    File([i \in 1..n |-> ValidLine(force, 1, i, i \in bad, FALSE)])

FailedFile(force, n) ==
    File([i \in 1..n |-> FailedLine(force, 1, i, FALSE, FALSE)])

FileSizes == 0..MaxFileRows

\* The two files of a force: both written by the download that returned
\* their paths; for a null result none, or both left by an earlier download
ForceFiles(force, isNull) ==
    LET written ==
          {<<ValidFile(force, n, bad), FailedFile(force, m)>> :
             n \in FileSizes, m \in FileSizes, bad \in SUBSET (1..1)}
    IN IF isNull THEN written \cup {<<NoFile, NoFile>>} ELSE written

FanInInputs ==
    /\ \E nulls \in SUBSET Forces :
         /\ units = [f \in Forces |->
                       [NewUnit EXCEPT !.state = "returned",
                                       !.result = IF f \in nulls
                                                  THEN NullResult
                                                  ELSE PathsResult(f)]]
         /\ \E ff \in [Forces -> UNION {ForceFiles(f, TRUE) : f \in Forces}] :
              /\ \A f \in Forces : ff[f] \in ForceFiles(f, f \in nulls)
              /\ files = [p \in Paths |->
                            IF p = FinalPath THEN NoFile
                            ELSE IF p[1] = "valid" THEN ff[p[2]][1]
                            ELSE ff[p[2]][2]]
    /\ load = IdleLoad
    /\ job = "dispatched"
    /\ fanin = [IdleFanIn EXCEPT !.state = "waiting"]
    /\ upstream = NoUpstream

FanInInit ==
    /\ db = EmptyDb
    /\ FanInInputs
    /\ call = NoCall

FanInNext == FanInRun \/ FanInRetry

SpecFanIn == FanInInit /\ [][FanInNext]_vars

-----------------------------------------------------------------------------
(* The remediation sweep (remediate_failed_rows) and the operations that   *)
(* write to the store, in any order.                                       *)

\* The mapped attributes of a class can be named in a query; any other
\* attribute of the class raises AttributeError
HasAttr(attrs, name) == name \in attrs

\* s without its first element equal to x
RECURSIVE RemoveFirst(_, _)
RemoveFirst(s, x) ==
    IF s = <<>> THEN <<>>
    ELSE IF Head(s) = x THEN Tail(s)
    ELSE <<Head(s)>> \o RemoveFirst(Tail(s), x)

\* for row in failed_rows: clean, StopSearch(**cleaned_data), add, delete,
\* commit; on an exception rollback and go on.  failing: the rows for which
\* one of these raises.
RECURSIVE SweepRows(_, _, _)
SweepRows(store, rows, failing) ==
    IF rows = <<>> THEN [db |-> store, remediated_count |-> 0, attempted |-> 0]
    ELSE IF Head(rows) \in failing
    THEN [SweepRows(store, Tail(rows), failing) EXCEPT !.attempted = @ + 1]
    ELSE LET rest == SweepRows(
                        [store EXCEPT
                           !.stop_searches = Append(@, Head(rows).raw_data),
                           !.failed_rows = RemoveFirst(@, Head(rows))],
                        Tail(rows), failing)
         IN [rest EXCEPT !.remediated_count = @ + 1, !.attempted = @ + 1]

\* remediate_failed_rows: the query filters on FailedRow.source
RemediateFailedRows(store, failing) ==
    IF ~HasAttr(FailedRowAttrs, "source")
    THEN [db |-> store, raised |-> TRUE, remediated_count |-> 0,
          attempted |-> 0]
    ELSE LET IsStopSearch(row) == row.source = StopSearchTable
             r == SweepRows(store, SelectSeq(store.failed_rows, IsStopSearch),
                            failing)
         IN [db |-> r.db, raised |-> FALSE,
             remediated_count |-> r.remediated_count,
             attempted |-> r.attempted]

\* One sweep: service.remediate_failed_rows()
SweepRun ==
    /\ \E failing \in SUBSET Range(db.failed_rows) :
         LET r == RemediateFailedRows(db, failing)
         IN /\ db' = r.db
            /\ call' = [op |-> "sweep", raised |-> r.raised,
                        remediated_count |-> r.remediated_count,
                        attempted |-> r.attempted]
    /\ UNCHANGED <<files, load, job, units, fanin, upstream>>

\* The store before: per force no row, or a row of the latest month
OpsInit ==
    /\ \E wm \in [Forces -> {0, MaxMonth}] :
          db = [stop_searches |-> WatermarkRows(wm), failed_rows |-> <<>>]
    /\ FanInInputs
    /\ call = NoCall

OpsNext == FanInRun \/ FanInRetry \/ SweepRun

SpecOps == OpsInit /\ [][OpsNext]_vars

-----------------------------------------------------------------------------
(* Partition selection on its own: _get_dates_to_process for one force,    *)
(* the load of what it selected, and the selection of the next run.        *)

\* A store holding, for each force, one canonical row per month of stored
StoreOf(stored) ==
    [stop_searches |->
        Concat([i \in 1..Len(ForceSeq) |->
                  [k \in 1..Cardinality(stored[ForceSeq[i]]) |->
                     Columns(ValidLine(ForceSeq[i],
                                       SortedSeq(stored[ForceSeq[i]])[k],
                                       0, FALSE, FALSE))]]),
     failed_rows |-> <<>>]

\* The valid rows of the pages of these months, those of the months in
\* empty left out: their page held no record that passed validation
ValidRowsOf(force, dates, empty) ==
    Concat([i \in 1..Len(dates) |->
              IF dates[i] \in empty THEN <<>> ELSE Page(force, dates[i]).valid])

SelectInit ==
    /\ \E stored \in [Forces -> SUBSET Months] : db = StoreOf(stored)
    /\ upstream \in [Forces -> SUBSET Months]
    /\ files = NoFiles
    /\ load = IdleLoad
    /\ job = "idle"
    /\ units = [f \in Forces |-> IdleUnit]
    /\ fanin = IdleFanIn
    /\ call = [op |-> "select", phase |-> "ready"]

\* dates_to_fetch = self._get_dates_to_process(force)
SelectRun ==
    /\ call.op = "select"
    /\ call.phase = "ready"
    /\ \E force \in Forces, requestOk \in BOOLEAN :
         call' = [op |-> "select", phase |-> "selected", force |-> force,
                  requestOk |-> requestOk, before |-> db,
                  dates_to_fetch |->
                      GetDatesToProcess(db, upstream, requestOk, force),
                  empty |-> {}, againOk |-> FALSE, again |-> <<>>]
    /\ UNCHANGED <<db, files, load, job, units, fanin, upstream>>

\* The run loads what it fetched for the selected months: the valid rows
\* of their pages, through bulk_insert_from_csv
LoadSelected ==
    /\ call.op = "select"
    /\ call.phase = "selected"
    /\ \E empty \in SUBSET Range(call.dates_to_fetch) :
         /\ db' = BulkInsertFromCsv(db,
                      File(ValidRowsOf(call.force, call.dates_to_fetch,
                                       empty)),
                      StopSearchTable, "none").db
         /\ call' = [call EXCEPT !.phase = "loaded", !.empty = empty]
    /\ UNCHANGED <<files, load, job, units, fanin, upstream>>

\* The next run of the same force, nothing new published upstream
SelectAgain ==
    /\ call.op = "select"
    /\ call.phase = "loaded"
    /\ \E requestOk \in BOOLEAN :
         call' = [call EXCEPT
                    !.phase = "reselected", !.againOk = requestOk,
                    !.again = GetDatesToProcess(db, upstream, requestOk,
                                                call.force)]
    /\ UNCHANGED <<db, files, load, job, units, fanin, upstream>>

SelectNext == SelectRun \/ LoadSelected \/ SelectAgain

SpecSelect == SelectInit /\ [][SelectNext]_vars

-----------------------------------------------------------------------------
(* The HTTP client (app/core/http_client.py): make_request and             *)
(* make_request_async under tenacity's retry.  Waits are in hundredths of  *)
(* a second.                                                               *)

\* stop_after_attempt(5)
StopAfterAttempt == 5

\* random.uniform(0, 0.1), in hundredths
JitterMax == 10
Jitters == {0, 5, JitterMax}

\* retry_after = float(retry_after) if retry_after is not None else 1
DefaultRetryAfter == 1

\* The Retry-After header of a 429 response: absent, a number of seconds,
\* or a text float() cannot parse (an HTTP date)
NoHeader == [present |-> FALSE, numeric |-> TRUE, value |-> 0]
Header(v) == [present |-> TRUE, numeric |-> TRUE, value |-> v]
DateHeader == [present |-> TRUE, numeric |-> FALSE, value |-> 0]
RetryAfterHeaders == {NoHeader, Header(0), Header(5), DateHeader}

\* What the upstream answers to one GET
Responses ==
    {[status |-> "ok", header |-> NoHeader],
     [status |-> "bad_json", header |-> NoHeader],
     [status |-> "error_status", header |-> NoHeader],
     [status |-> "network_error", header |-> NoHeader]}
    \cup {[status |-> "429", header |-> h] : h \in RetryAfterHeaders}

RECURSIVE Pow2(_)
Pow2(n) == IF n = 0 THEN 1 ELSE 2 * Pow2(n - 1)

\* The body of make_request / make_request_async for one response: the
\* JSON returned, or the exception raised
MakeRequest(response) ==
    IF response.status = "network_error"
    THEN [kind |-> "RequestError", header |-> NoHeader, retry_after |-> 0]
    ELSE IF response.status = "429" /\ ~response.header.numeric
    THEN [kind |-> "ValueError", header |-> response.header, retry_after |-> 0]
    ELSE IF response.status = "429"
    THEN [kind |-> "RateLimitError", header |-> response.header,
          retry_after |-> IF response.header.present
                          THEN response.header.value
                          ELSE DefaultRetryAfter]
    ELSE IF response.status = "error_status"
    THEN [kind |-> "HTTPStatusError", header |-> NoHeader, retry_after |-> 0]
    ELSE IF response.status = "bad_json"
    THEN [kind |-> "ValueError", header |-> NoHeader, retry_after |-> 0]
    ELSE [kind |-> "json", header |-> NoHeader, retry_after |-> 0]

\* retry_if_exception_type((RequestError, HTTPStatusError, RateLimitError))
RetryIf(outcome) ==
    outcome.kind \in {"RequestError", "HTTPStatusError", "RateLimitError"}

\* A wait that applies the exponential formula to every failure
ExponentialWait(outcome, attempt_number, jitter) ==
    Pow2(attempt_number - 1) * (100 + jitter)

\* A wait whose exponent goes down with the attempts
ShrinkingWait(outcome, attempt_number, jitter) ==
    IF outcome.kind = "RateLimitError" THEN outcome.retry_after * 100
    ELSE Pow2(StopAfterAttempt - attempt_number) * (100 + jitter)

\* rate_limit_wait(retry_state)
RateLimitWait(outcome, attempt_number, jitter) ==
    IF outcome.kind = "RateLimitError" THEN outcome.retry_after * 100
    ELSE Pow2(attempt_number - 1) * (100 + jitter)

\* A stop that allows one more attempt
StopOneLater(attempt_number) == attempt_number >= StopAfterAttempt + 1

\* stop_after_attempt(5): the attempt just made was the last one allowed
Stop(attempt_number) == attempt_number >= StopAfterAttempt

NoOutcome == [kind |-> "none", header |-> NoHeader, retry_after |-> 0]

HttpInit ==
    /\ db = EmptyDb
    /\ files = NoFiles
    /\ load = IdleLoad
    /\ job = "idle"
    /\ units = [f \in Forces |-> IdleUnit]
    /\ fanin = IdleFanIn
    /\ upstream = NoUpstream
    /\ \E fn \in {"make_request", "make_request_async"} :
         call = [op |-> "http", fn |-> fn, phase |-> "running",
                 attempt_number |-> 1, requests |-> 0, waits |-> <<>>,
                 outcomes |-> <<>>, result |-> 0, error |-> NoOutcome]

\* One attempt of the decorated function and what tenacity does with its
\* outcome: return it, raise it, or wait and go to the next attempt
HttpAttempt ==
    /\ call.op = "http"
    /\ call.phase = "running"
    /\ \E response \in Responses, jitter \in Jitters :
         LET outcome == MakeRequest(response)
             n == call.attempt_number
             made == [call EXCEPT !.requests = @ + 1,
                                  !.outcomes = Append(@, outcome)]
         IN call' =
              IF outcome.kind = "json"
              THEN [made EXCEPT !.phase = "returned", !.result = n]
              ELSE IF ~RetryIf(outcome) \/ Stop(n)
              THEN [made EXCEPT !.phase = "raised", !.error = outcome]
              ELSE [made EXCEPT
                      !.attempt_number = n + 1,
                      !.waits = Append(@,
                          [after |-> outcome, attempt_number |-> n,
                           wait |-> RateLimitWait(outcome, n, jitter)])]
    /\ UNCHANGED <<db, files, load, job, units, fanin, upstream>>

HttpNext == HttpAttempt

SpecHttp == HttpInit /\ [][HttpNext]_vars

-----------------------------------------------------------------------------
(* One raw record through validation and remediation                       *)
(* (app/services/data_cleaner.py, _process_stop_search_data).  A value of  *)
(* a raw record is written as text: "bool:False" is the boolean false,     *)
(* "int:0" the integer, "None" the null and "Absent" a missing key.        *)

Absent == "Absent"
IsoDatetime == "2024-01-06T22:45:00+00:00"
BadDatetime == "invalid-date-format"

Outcomes == {"bool:False", "bool:True", "int:0", "Arrest", "Nothing found",
             None, Absent}
Types == {"Vehicle search", "Person search", None, Absent}
InvolvedPersons == {"bool:True", "bool:False", "", None, Absent}
Datetimes == {IsoDatetime, BadDatetime, None, Absent}
Genders == {"Male", None}

Items == [outcome : Outcomes, type : Types, involved_person : InvolvedPersons,
          datetime : Datetimes, gender : Genders]

\* item.get(key)
Get(v) == IF v = Absent THEN None ELSE v

\* A cleaner that sets involved_person only when upstream gave none
CleanKeepingUpstream(item) ==
    [item EXCEPT
       !.outcome = IF Get(@) = "bool:False" THEN "Nothing found" ELSE @,
       !.involved_person =
           IF Get(@) \in {"bool:True", "bool:False"} THEN @
           ELSE IF Get(item.type) = "Vehicle search" THEN "bool:False"
           ELSE "bool:True"]

\* A cleaner that negates the upstream involved_person
CleanNegating(item) ==
    [item EXCEPT
       !.outcome = IF Get(@) = "bool:False" THEN "Nothing found" ELSE @,
       !.involved_person =
           IF Get(@) = "bool:True" THEN "bool:False" ELSE "bool:True"]

\* DataCleaner.clean(item) = DataCleaner._fix_data_types(item)
Clean(item) ==
    [item EXCEPT
       !.outcome = IF Get(@) = "bool:False" THEN "Nothing found" ELSE @,
       !.involved_person =
           IF Get(item.type) = "Vehicle search" THEN "bool:False"
           ELSE "bool:True"]

\* datetime.fromisoformat(dt_value.replace("Z", "+00:00"))
FromIsoFormat(v) ==
    IF v = IsoDatetime
    THEN [raised |-> FALSE, value |-> "datetime:" \o v, reason |-> ""]
    ELSE [raised |-> TRUE, value |-> None,
          reason |-> "Invalid isoformat string: '" \o v \o "'"]

\* The flat row built from an item
FlatRow(item, force, dt_value) ==
    [force |-> force, type |-> Get(item.type),
     involved_person |-> Get(item.involved_person), datetime |-> dt_value,
     gender |-> Get(item.gender), outcome |-> Get(item.outcome)]

\* _create_stop_search_dict(item, force): only a text datetime is parsed,
\* nothing else is checked
CreateStopSearchDict(item, force) ==
    IF Get(item.datetime) = None
    THEN [raised |-> FALSE, reason |-> "", row |-> FlatRow(item, force, None)]
    ELSE LET dt == FromIsoFormat(item.datetime)
         IN [raised |-> dt.raised, reason |-> dt.reason,
             row |-> FlatRow(item, force, dt.value)]

\* df.replace(r"^\s*$", None, regex=True)
BlankToNone(v) == IF v = "" THEN None ELSE Get(v)

\* StopSearchDataFrameSchema rejects the row: type, involved_person and
\* datetime are not nullable, and datetime must coerce to a timestamp
SchemaRejects(item) ==
    \/ BlankToNone(item.type) = None
    \/ BlankToNone(item.involved_person) = None
    \/ BlankToNone(item.datetime) \in {None, BadDatetime}

\* An outcome that is not text: whether coerce=True turns it into text or
\* reports the row depends on the pandera version installed
SchemaUnsure(item) == Get(item.outcome) \in {"bool:False", "bool:True", "int:0"}

\* The verdicts StopSearchDataFrameSchema.validate can give for the row
Verdicts(item) ==
    IF SchemaRejects(item) THEN {FALSE}
    ELSE IF SchemaUnsure(item) THEN {TRUE, FALSE}
    ELSE {TRUE}

\* The text of a value coerced to str
CoerceStr(v) ==
    IF v = "bool:False" THEN "False"
    ELSE IF v = "bool:True" THEN "True"
    ELSE IF v = "int:0" THEN "0"
    ELSE v

\* The row of the validated frame for an item that passed
ValidatedRow(item, force) ==
    [force |-> force, type |-> Get(item.type),
     involved_person |-> Get(item.involved_person),
     datetime |-> "datetime:" \o item.datetime,
     gender |-> Get(item.gender), outcome |-> CoerceStr(Get(item.outcome))]

RecordInit ==
    /\ db = EmptyDb
    /\ files = NoFiles
    /\ load = IdleLoad
    /\ job = "idle"
    /\ units = [f \in Forces |-> IdleUnit]
    /\ fanin = IdleFanIn
    /\ upstream = NoUpstream
    /\ \E item \in Items :
         call = [op |-> "record", phase |-> "raw", item |-> item,
                 cleaned |-> item, again |-> item, first_failed |-> FALSE,
                 remediations |-> 0, valid_rows |-> <<>>,
                 failed_rows |-> <<>>]

\* DataCleaner.clean(item)
CleanRun ==
    /\ call.op = "record"
    /\ call.phase = "raw"
    /\ call' = [call EXCEPT !.phase = "cleaned", !.cleaned = Clean(call.item),
                            !.again = Clean(call.item)]
    /\ UNCHANGED <<db, files, load, job, units, fanin, upstream>>

\* DataCleaner.clean applied to a cleaned item
CleanAgainRun ==
    /\ call.op = "record"
    /\ call.phase = "cleaned"
    /\ call' = [call EXCEPT !.phase = "cleaned_twice",
                            !.again = Clean(call.cleaned)]
    /\ UNCHANGED <<db, files, load, job, units, fanin, upstream>>

\* The remediation branch of _process_stop_search_data for one failed index
Remediate(c, force) ==
    LET cleaned == Clean(c.item)
        made == CreateStopSearchDict(cleaned, force)
        tried == [c EXCEPT !.phase = "processed", !.first_failed = TRUE,
                           !.cleaned = cleaned, !.again = cleaned,
                           !.remediations = @ + 1]
    IN IF made.raised
       THEN [tried EXCEPT !.failed_rows =
                 Append(@, [raw_data |-> cleaned, reason |-> made.reason])]
       ELSE [tried EXCEPT !.valid_rows = Append(@, made.row)]

\* _process_stop_search_data(force, [item])
ProcessRun ==
    /\ call.op = "record"
    /\ call.phase = "raw"
    /\ \E force \in Forces, passed \in Verdicts(call.item) :
         call' = IF passed
                 THEN [call EXCEPT !.phase = "processed",
                          !.valid_rows =
                              Append(@, ValidatedRow(call.item, force))]
                 ELSE Remediate(call, force)
    /\ UNCHANGED <<db, files, load, job, units, fanin, upstream>>

RecordNext == CleanRun \/ CleanAgainRun \/ ProcessRun

SpecRecord == RecordInit /\ [][RecordNext]_vars

-----------------------------------------------------------------------------
(* One page of raw records through _process_stop_search_data.              *)

MaxPage == 3

\* Records of each kind: valid; valid for a vehicle; blank involved_person
\* (remediable); unparsable datetime; no type; boolean outcome
PageItems ==
    {[outcome |-> "Arrest", type |-> "Person search",
      involved_person |-> "bool:True", datetime |-> IsoDatetime,
      gender |-> None],
     [outcome |-> "Arrest", type |-> "Vehicle search",
      involved_person |-> "bool:True", datetime |-> IsoDatetime,
      gender |-> None],
     [outcome |-> "Arrest", type |-> "Person search",
      involved_person |-> "", datetime |-> IsoDatetime, gender |-> None],
     [outcome |-> Absent, type |-> Absent, involved_person |-> Absent,
      datetime |-> BadDatetime, gender |-> None],
     [outcome |-> "Arrest", type |-> None, involved_person |-> "bool:True",
      datetime |-> IsoDatetime, gender |-> None],
     [outcome |-> "bool:False", type |-> "Person search",
      involved_person |-> "bool:True", datetime |-> IsoDatetime,
      gender |-> None]}

Pages == UNION {[1..n -> PageItems] : n \in 0..MaxPage}

\* A loop that drops the records that failed
DropFailed(data, force, failed_indices) ==
    [remediated_valid |-> <<>>, failed_rows |-> <<>>]

\* The remediation loop over failed_indices
RECURSIVE RemediateAll(_, _, _)
RemediateAll(data, force, failed_indices) ==
    IF failed_indices = <<>>
    THEN [remediated_valid |-> <<>>, failed_rows |-> <<>>]
    ELSE LET idx == Head(failed_indices)
             cleaned == Clean(data[idx])
             made == CreateStopSearchDict(cleaned, force)
             rest == RemediateAll(data, force, Tail(failed_indices))
         IN IF made.raised
            THEN [rest EXCEPT !.failed_rows =
                     <<[raw_data |-> cleaned, reason |-> made.reason,
                        idx |-> idx]>> \o @]
            ELSE [rest EXCEPT !.remediated_valid =
                     <<[row |-> made.row, idx |-> idx]>> \o @]

\* _process_stop_search_data(force, data).  passed: the schema's verdict on
\* each row.  Every output row carries the index of the record it is for.
ProcessStopSearchData(data, force, passed) ==
    LET Passed(i) == passed[i]
        Failed(i) == ~passed[i]
        index == [i \in 1..Len(data) |-> i]
        valid_idx == SelectSeq(index, Passed)
        failed_indices == SelectSeq(index, Failed)
        valid_rows == [k \in 1..Len(valid_idx) |->
                         [row |-> ValidatedRow(data[valid_idx[k]], force),
                          idx |-> valid_idx[k]]]
        r == RemediateAll(data, force, failed_indices)
    IN [valid_rows |-> valid_rows \o r.remediated_valid,
        failed_rows |-> r.failed_rows]

PageInit ==
    /\ db = EmptyDb
    /\ files = NoFiles
    /\ load = IdleLoad
    /\ job = "idle"
    /\ units = [f \in Forces |-> IdleUnit]
    /\ fanin = IdleFanIn
    /\ upstream = NoUpstream
    /\ \E data \in Pages :
         call = [op |-> "page", phase |-> "raw", data |-> data,
                 valid_rows |-> <<>>, failed_rows |-> <<>>]

PageRun ==
    /\ call.op = "page"
    /\ call.phase = "raw"
    /\ \E force \in Forces, passed \in [1..Len(call.data) -> BOOLEAN] :
         /\ \A i \in 1..Len(call.data) : passed[i] \in Verdicts(call.data[i])
         /\ LET out == ProcessStopSearchData(call.data, force, passed)
            IN call' = [call EXCEPT !.phase = "processed",
                                    !.valid_rows = out.valid_rows,
                                    !.failed_rows = out.failed_rows]
    /\ UNCHANGED <<db, files, load, job, units, fanin, upstream>>

PageNext == PageRun

SpecPage == PageInit /\ [][PageNext]_vars

-----------------------------------------------------------------------------
(* The older client: PoliceAPIService._make_request                        *)
(* (app/services/police_api.py), a loop of its own around requests.get.    *)

\* max_retries = 5 and base_delay = 1
LegacyMaxRetries == 5
LegacyBaseDelay == 1

\* What requests.get and the lines after it meet in one pass of the loop
LegacyResponses ==
    {[status |-> "ok", header |-> NoHeader],
     [status |-> "error_status", header |-> NoHeader],
     [status |-> "network_error", header |-> NoHeader]}
    \cup {[status |-> "429", header |-> h] : h \in RetryAfterHeaders}

\* One pass of the loop body, attempt counted from 0 as range() does:
\* "json" (return response.json()), "raise" (an exception leaves the
\* method), or "next" after a sleep of this many seconds
LegacyPass(attempt, response) ==
    IF response.status = "429"
    THEN IF ~response.header.numeric
         THEN [kind |-> "raise", error |-> "ValueError", sleep |-> 0]
         ELSE [kind |-> "next", error |-> "none",
               sleep |-> IF response.header.present
                         THEN response.header.value
                         ELSE LegacyBaseDelay * Pow2(attempt)]
    ELSE IF response.status = "ok"
    THEN [kind |-> "json", error |-> "none", sleep |-> 0]
    ELSE IF attempt = LegacyMaxRetries - 1
    THEN [kind |-> "raise", error |-> "RequestException", sleep |-> 0]
    ELSE [kind |-> "next", error |-> "none",
          sleep |-> LegacyBaseDelay * Pow2(attempt)]

\* for attempt in range(max_retries): when the range is used up the method
\* ends without a return statement, so the caller receives None
LegacyLoop(attempt) ==
    IF attempt >= LegacyMaxRetries
    THEN [phase |-> "returned", result |-> None]
    ELSE [phase |-> "running", result |-> "none"]

LegacyInit ==
    /\ db = EmptyDb
    /\ files = NoFiles
    /\ load = IdleLoad
    /\ job = "idle"
    /\ units = [f \in Forces |-> IdleUnit]
    /\ fanin = IdleFanIn
    /\ upstream = NoUpstream
    /\ call = [op |-> "legacy", phase |-> "running", attempt |-> 0,
               result |-> "none", responses |-> <<>>, sleeps |-> <<>>]

LegacyAttempt ==
    /\ call.op = "legacy"
    /\ call.phase = "running"
    /\ \E response \in LegacyResponses :
         LET p == LegacyPass(call.attempt, response)
             made == [call EXCEPT !.responses = Append(@, response.status)]
         IN call' =
              IF p.kind = "json"
              THEN [made EXCEPT !.phase = "returned", !.result = "json"]
              ELSE IF p.kind = "raise"
              THEN [made EXCEPT !.phase = "raised", !.result = p.error]
              ELSE [made EXCEPT
                      !.attempt = @ + 1,
                      !.sleeps = Append(@, p.sleep),
                      !.phase = LegacyLoop(call.attempt + 1).phase,
                      !.result = LegacyLoop(call.attempt + 1).result]
    /\ UNCHANGED <<db, files, load, job, units, fanin, upstream>>

LegacyNext == LegacyAttempt

SpecLegacy == LegacyInit /\ [][LegacyNext]_vars

-----------------------------------------------------------------------------
(* The bulk loader.                                                        *)

LoadedInto(table_name, line) ==
    \E k \in 1..Len(db[table_name]) : db[table_name][k] = Columns(line)

Quarantined(line) ==
    \E k \in 1..Len(db.failed_rows) :
        db.failed_rows[k].raw_data = Columns(line)

LoadReturned == load.phase = "done" /\ ~load.out.raised

InputLines == files[FinalPath].rows

BadLines == {i \in 1..Len(InputLines) : InputLines[i].bad}

\* C1: whenever bulk_insert_from_csv returns without raising, whatever the
\* target table, every data row of the input is loaded into the target table
\* or recorded in the dead-letter store; none is both unloaded and unrecorded.
C1_NoLoss ==
    LoadReturned =>
        \A i \in 1..Len(InputLines) :
            \/ LoadedInto(load.table, InputLines[i])
            \/ Quarantined(InputLines[i])

\* C2: a batch of N >= 1 rows for the canonical table in which exactly one row
\* makes every bulk-load call containing it fail ends with N-1 rows committed
\* and exactly one RejectedRecord quarantined: that row, with the error text
\* of the failing call as its reason; no well-formed row is quarantined.
C2_RowIsolation ==
    (/\ LoadReturned
     /\ load.table = StopSearchTable
     /\ load.fault \in {"none", "copy"}
     /\ Cardinality(BadLines) = 1
     /\ \A i \in BadLines : ~InputLines[i].noparse)
    => LET added == SubSeq(db.failed_rows, Len(load.before.failed_rows) + 1,
                           Len(db.failed_rows))
       IN /\ Len(db.stop_searches)
               = Len(load.before.stop_searches) + Len(InputLines) - 1
          /\ \A i \in 1..Len(InputLines) :
                i \notin BadLines => LoadedInto(StopSearchTable, InputLines[i])
          /\ Len(added) = 1
          /\ \A i \in BadLines :
                /\ added[1].raw_data = Columns(InputLines[i])
                /\ added[1].reason = CopyError(<<InputLines[i]>>)

-----------------------------------------------------------------------------
(* The fetch units and the chord.                                          *)

\* The last attempt of the unit ended in an exception of the download
AttemptFailed(unit) ==
    unit.last.kind \in {"TypeError", "PartialDownloadError"}

\* The terminal states of a fetch unit
Terminal(unit) == unit.state \in {"returned", "raised"}

\* C3: a fetch unit is retried at most MaxRetries (5) times, and when an
\* attempt fails with the retry ceiling reached the unit returns a null
\* result instead of raising.
C3_NullAtCeiling ==
    \A f \in Forces :
        /\ units[f].retries <= MaxRetries
        /\ (AttemptFailed(units[f]) /\ units[f].last.retries = MaxRetries)
             => units[f].state = "returned" /\ units[f].result = NullResult

\* C4: in every job run whose dispatch succeeded, under fair scheduling,
\* every fetch unit eventually reaches a terminal state and the fan-in unit
\* eventually runs, whatever subset of the sources fails.
C4_FanInLiveness ==
    (job = "dispatched")
        ~> ((\A f \in Forces : Terminal(units[f])) /\ fanin.runs # <<>>)

\* C5: the fan-in unit never starts while a fetch unit of the run is still
\* fetching or waiting for a retry; once it has started every fetch unit is
\* terminal, and it has received exactly one result (possibly null) per
\* dispatched force: that unit's result, in the order of dispatch.
C5_FanInOrdering ==
    (fanin.state \notin {"idle", "waiting", "chord_error"})
    => /\ \A f \in Forces : Terminal(units[f])
       /\ Len(fanin.results) = Cardinality(Forces)
       /\ \A i \in 1..Len(ForceSeq) :
             fanin.results[i] = units[ForceSeq[i]].result

\* The fan-in of a dispatched run has run after every unit returned
C5_Witness ==
    /\ job = "dispatched"
    /\ fanin.state = "done"
    /\ Len(fanin.runs) = 1
    /\ \A f \in Forces : units[f].state = "returned"

-----------------------------------------------------------------------------
(* The download and the re-dispatch of a fetch unit.                       *)

\* The months of the last attempt whose fetch succeeded
Fetched(unit) == Range(unit.last.selected) \ unit.last.raised

\* append = dates is not None, as the next attempt of the unit computes it
AppendFlag(unit) == ~unit.dates.null

\* C8: when an attempt of download_stop_search_data ends, the rows of every
\* selected partition whose fetch succeeded are in the run's output files,
\* even when other partitions failed.
C8_PartitionIsolation ==
    [][\A f \in Forces :
         (units[f].state = "fetching" /\ units'[f].state # "fetching")
         => \A d \in Fetched(units'[f]) :
              /\ \A i \in 1..Len(Page(f, d).valid) :
                    \E k \in 1..Len(files'[ValidPath(f)].rows) :
                        files'[ValidPath(f)].rows[k] = Page(f, d).valid[i]
              /\ \A i \in 1..Len(Page(f, d).failed) :
                    \E k \in 1..Len(files'[FailedPath(f)].rows) :
                        files'[FailedPath(f)].rows[k] = Page(f, d).failed[i]
      ]_vars

\* C9: an attempt in which the fetch of some selected partition raised ends
\* in PartialDownloadError, and its failed_dates are exactly the selected
\* partitions whose fetch raised.
C9_FailedDatesExact ==
    \A f \in Forces :
        units[f].last.raised # {}
        => /\ units[f].last.kind = "PartialDownloadError"
           /\ Range(units[f].last.failed_dates) = units[f].last.raised
           /\ Len(units[f].last.failed_dates)
                 = Cardinality(units[f].last.raised)

\* C10: when an attempt ended with partition failures and the retry budget
\* is not exhausted, the unit is re-dispatched with exactly the partitions
\* that failed in that attempt and with the append flag set.
C10_NarrowedRedispatch ==
    \A f \in Forces :
        (units[f].last.raised # {} /\ units[f].last.retries < MaxRetries)
        => /\ units[f].retries = units[f].last.retries + 1
           /\ AppendFlag(units[f])
           /\ Range(units[f].dates.list) = units[f].last.raised

\* How many lines of a file equal this one
Occurrences(rows, line) == Cardinality({k \in 1..Len(rows) : rows[k] = line})

\* C11: a fetch unit whose attempts end with every originally selected
\* partition fetched ends in success, and its valid and rejected outputs
\* then hold the rows of every originally selected partition exactly once.
\* Stated for the first attempt of a unit in which no fetch raised: the
\* shortest such sequence of attempts.
C11_OutputAccumulates ==
    [][\A f \in Forces :
         (/\ units[f].state = "fetching"
          /\ units'[f].state # "fetching"
          /\ units'[f].last.args.null
          /\ units'[f].last.raised = {})
         => /\ units'[f].state = "returned"
            /\ ~units'[f].result.null
            /\ \A d \in Range(units'[f].last.selected) :
                 /\ \A i \in 1..Len(Page(f, d).valid) :
                       Occurrences(files'[ValidPath(f)].rows,
                                   Page(f, d).valid[i]) = 1
                 /\ \A i \in 1..Len(Page(f, d).failed) :
                       Occurrences(files'[FailedPath(f)].rows,
                                   Page(f, d).failed[i]) = 1
      ]_vars

-----------------------------------------------------------------------------
(* The fan-in unit.                                                        *)

\* The rows handed to the loader for a target in one execution
HandedTo(run, table_name) ==
    Concat([k \in 1..Len(run.loads) |->
              IF run.loads[k].table = table_name THEN run.loads[k].handed
              ELSE <<>>])

\* The rows of the files named by the non-null results, in their order
RowsOfResults(results, fs, field) ==
    Concat([i \in 1..Len(results) |->
              IF results[i].null \/ ~fs[results[i][field]].exists THEN <<>>
              ELSE fs[results[i][field]].rows])

GoodRows(rows) == {Columns(rows[i]) : i \in {j \in 1..Len(rows) : ~rows[j].bad}}

Stored(store, table_name) ==
    {store[table_name][k] : k \in 1..Len(store[table_name])}

\* C6: the first execution of the fan-in unit skips the null results, hands
\* the loader the merged valid rows of all non-null results for the
\* canonical table and their merged rejected rows for the dead-letter table,
\* calls the loader at most once per target, and when it does not raise the
\* rows of every non-null result that the store accepts are loaded.
C6_FanInMerge ==
    [][(fanin.state = "waiting" /\ fanin'.state # "waiting")
       => LET run == fanin'.runs[1]
              valid == RowsOfResults(fanin'.results, files, "valid")
              failed == RowsOfResults(fanin'.results, files, "failed")
          IN /\ \A t \in Tables :
                   Cardinality({k \in 1..Len(run.loads) :
                                   run.loads[k].table = t}) <= 1
             /\ HandedTo(run, StopSearchTable) = valid
             /\ ~run.raised =>
                   /\ HandedTo(run, FailedRowTable) = failed
                   /\ GoodRows(valid) \subseteq Stored(db', StopSearchTable)
                   /\ GoodRows(failed) \subseteq Stored(db', FailedRowTable)
      ]_vars

\* The fan-in ran once without raising on a null result and a non-null one,
\* and loaded rows into both targets
C6_Witness ==
    /\ fanin.state = "done"
    /\ Len(fanin.runs) = 1
    /\ \E i, j \in 1..Len(fanin.results) :
          fanin.results[i].null /\ ~fanin.results[j].null
    /\ Len(fanin.runs[1].loads) = 2
    /\ db.stop_searches # <<>>
    /\ db.failed_rows # <<>>

\* C7: a retry of the fan-in unit hands the loader, for each target, the
\* rows the first attempt handed it, and no fetch unit is invoked again.
C7_IdempotentRemerge ==
    /\ \A f \in Forces : units[f].state = "returned" /\ units[f].retries = 0
    /\ \A k \in 2..Len(fanin.runs) :
          \A t \in Tables :
              HandedTo(fanin.runs[1], t) # <<>>
              => HandedTo(fanin.runs[k], t) = HandedTo(fanin.runs[1], t)

-----------------------------------------------------------------------------
(* Partition selection and the watermark.                                  *)

\* The months for which the store holds a canonical row of the force
StoredMonths(store, force) ==
    {store.stop_searches[k].date :
       k \in {j \in 1..Len(store.stop_searches) :
                store.stop_searches[j].force = force}}

\* s is in strictly increasing order
Increasing(s) == \A i, j \in 1..Len(s) : i < j => s[i] < s[j]

\* C12: with the availability known, _get_dates_to_process returns in sorted
\* order exactly the available months of the force that are strictly later
\* than the latest month of its stored rows, or all available months when
\* the force has no stored row.
C12_Selection ==
    (call.op = "select" /\ call.phase = "selected" /\ call.requestOk)
    => LET stored == StoredMonths(db, call.force)
           dates == call.dates_to_fetch
       IN /\ Increasing(dates)
          /\ Range(dates) =
                {d \in upstream[call.force] : \A m \in stored : d > m}

\* A force whose latest stored month is 1, with months 1 and 2 available:
\* exactly month 2 is selected
C12_Witness ==
    /\ call.op = "select"
    /\ call.phase = "selected"
    /\ call.requestOk
    /\ StoredMonths(db, call.force) = {1}
    /\ {1, 2} \subseteq upstream[call.force]
    /\ call.dates_to_fetch = <<2>>

\* C13 as stated: once a run has loaded what it fetched for the months it
\* selected for a force, the next selection for that force, with nothing new
\* published, is empty.
C13_IdempotentSelection ==
    (call.op = "select" /\ call.phase = "reselected") => call.again = <<>>

\* C13, amended: the next selection is empty when the run's availability
\* request succeeded and the latest month it selected, if any, gave at
\* least one canonical row to the store.
C13_IdempotentWhenAdvanced ==
    (/\ call.op = "select"
     /\ call.phase = "reselected"
     /\ call.requestOk
     /\ call.dates_to_fetch # <<>>
          => call.dates_to_fetch[Len(call.dates_to_fetch)] \notin call.empty)
    => call.again = <<>>

\* A run selected two months and loaded their rows; the next selection,
\* its availability request answered, is empty
C13_Witness ==
    /\ call.op = "select"
    /\ call.phase = "reselected"
    /\ call.requestOk
    /\ call.againOk
    /\ Len(call.dates_to_fetch) = 2
    /\ call.empty = {}
    /\ Len(db.stop_searches) = Len(call.before.stop_searches) + 2
    /\ call.again = <<>>

\* The watermark of a force: the latest month of its stored rows, 0 when it
\* has none
WatermarkOf(store, force) ==
    IF LatestMonth(store, force) = {} THEN 0
    ELSE CHOOSE m \in LatestMonth(store, force) : TRUE

\* C14: over any sequence of fan-in executions, fan-in retries and
\* remediation sweeps, no step lowers the watermark of a force.
C14_WatermarkMonotone ==
    [][\A f \in Forces : WatermarkOf(db', f) >= WatermarkOf(db, f)]_vars

\* A force whose watermark is the latest month has been loaded rows of an
\* earlier month, the fan-in has been retried and a sweep has run
C14_Witness ==
    /\ Len(fanin.runs) >= 2
    /\ call.op = "sweep"
    /\ \E f \in Forces :
          /\ WatermarkOf(db, f) = MaxMonth
          /\ \E k \in 1..Len(db.stop_searches) :
                /\ db.stop_searches[k].force = f
                /\ db.stop_searches[k].date < MaxMonth

-----------------------------------------------------------------------------
(* The HTTP client.                                                        *)

HttpDone == call.op = "http" /\ call.phase \in {"returned", "raised"}

\* C15: one call issues at most 5 requests, 429 responses and transient
\* failures counted alike; it returns the JSON of the first successful
\* attempt; and when the last allowed attempt fails the call raises the
\* error of that attempt.
C15_AttemptCeiling ==
    call.op = "http"
    => /\ call.requests <= 5
       /\ call.phase = "running" => call.requests < 5
       /\ call.phase = "returned"
            => /\ call.result = call.requests
               /\ call.outcomes[call.result].kind = "json"
               /\ \A k \in 1..(call.result - 1) : RetryIf(call.outcomes[k])
       /\ call.phase = "raised"
            => /\ call.error = call.outcomes[call.requests]
               /\ call.error.kind \notin {"none", "json"}
       /\ (call.requests = 5 /\ call.outcomes[5].kind # "json")
            => call.phase = "raised" /\ call.error = call.outcomes[5]

\* Five requests were made, a 429 and a transient failure among them, and
\* the error of the fifth was raised
C15_Witness ==
    /\ HttpDone
    /\ call.phase = "raised"
    /\ call.requests = 5
    /\ \E i, j \in 1..4 : /\ call.outcomes[i].kind = "RateLimitError"
                          /\ call.outcomes[j].kind = "RequestError"
    /\ call.error = call.outcomes[5]

\* C16: the wait after a 429 response is the Retry-After value when the
\* header is present and 1 second when it is absent, whatever the attempt
\* number; the exponential formula is not applied to it.
C16_RetryAfterExact ==
    call.op = "http"
    => \A k \in 1..Len(call.waits) :
          call.waits[k].after.kind = "RateLimitError"
          => call.waits[k].wait =
                100 * (IF call.waits[k].after.header.present
                       THEN call.waits[k].after.header.value ELSE 1)

\* After the third attempt a 429 with Retry-After: 5 was waited for 5
\* seconds, and one without the header for 1 second
C16_Witness ==
    /\ call.op = "http"
    /\ Len(call.waits) = 4
    /\ call.waits[3].after.header = Header(5)
    /\ call.waits[3].wait = 500
    /\ call.waits[4].after.kind = "RateLimitError"
    /\ ~call.waits[4].after.header.present
    /\ call.waits[4].wait = 100

\* The waits after failures other than a 429
Backoffs == {k \in 1..Len(call.waits) :
               call.waits[k].after.kind # "RateLimitError"}

\* C17: within one call the wait after the k-th attempt, when that attempt
\* failed otherwise than by a 429, is 2^(k-1) * (1 + jitter) with jitter
\* between 0 and 0.1; each such wait is at least as long as the one before;
\* and at most 4 waits occur.
C17_BackoffMonotone ==
    call.op = "http"
    => /\ Len(call.waits) <= 4
       /\ \A k \in Backoffs :
             /\ call.waits[k].attempt_number = k
             /\ \E j \in 0..JitterMax :
                   call.waits[k].wait = Pow2(k - 1) * (100 + j)
       /\ \A i, k \in Backoffs :
             i < k => call.waits[i].wait <= call.waits[k].wait

\* Four transient failures in a row, waited for 1, 2, 4 and 8 seconds, the
\* first with the largest jitter
C17_Witness ==
    /\ call.op = "http"
    /\ Backoffs = 1..4
    /\ call.waits[1].wait = 110
    /\ call.waits[2].wait = 200
    /\ call.waits[3].wait = 400
    /\ call.waits[4].wait = 800

-----------------------------------------------------------------------------
(* Remediation of one record.                                              *)

\* The fields of an item other than outcome and involved_person
OtherFields(item) == [type |-> item.type, datetime |-> item.datetime,
                      gender |-> item.gender]

\* C18: DataCleaner.clean rewrites outcome to "Nothing found" exactly when
\* outcome is the boolean false and keeps every other outcome; it sets
\* involved_person to false when type is "Vehicle search" and to true
\* otherwise, whatever the upstream involved_person was; no other field
\* changes.
C18_RemediationRules ==
    (call.op = "record" /\ call.phase = "cleaned")
    => /\ call.item.outcome = "bool:False"
            => call.cleaned.outcome = "Nothing found"
       /\ call.item.outcome # "bool:False"
            => call.cleaned.outcome = call.item.outcome
       /\ call.item.type = "Vehicle search"
            => call.cleaned.involved_person = "bool:False"
       /\ call.item.type # "Vehicle search"
            => call.cleaned.involved_person = "bool:True"
       /\ OtherFields(call.cleaned) = OtherFields(call.item)

\* A vehicle search reported with involved_person true and outcome false
\* was cleaned
C18_Witness ==
    /\ call.op = "record"
    /\ call.phase = "cleaned"
    /\ call.item.type = "Vehicle search"
    /\ call.item.involved_person = "bool:True"
    /\ call.item.outcome = "bool:False"
    /\ call.cleaned.involved_person = "bool:False"
    /\ call.cleaned.outcome = "Nothing found"

\* C19: for every raw record x, clean(clean(x)) equals clean(x).
C19_RemediationIdempotent ==
    (call.op = "record" /\ call.phase = "cleaned_twice")
    => call.again = call.cleaned

\* A record that the first cleaning changed was cleaned a second time
C19_Witness ==
    /\ call.op = "record"
    /\ call.phase = "cleaned_twice"
    /\ call.cleaned # call.item
    /\ call.item.involved_person = "bool:True"
    /\ call.cleaned.involved_person = "bool:True"
    /\ call.item.outcome = "bool:False"

\* C20: a record that fails first validation is remediated and validated
\* again exactly once; if the remediated record is still invalid it is in
\* the rejected output with the reason of the failure and not in the valid
\* output, and if it has become valid it is in the valid output.
C20_SingleRemediation ==
    (call.op = "record" /\ call.phase = "processed" /\ call.first_failed)
    => /\ call.remediations = 1
       /\ Len(call.valid_rows) + Len(call.failed_rows) = 1
       /\ SchemaRejects(call.cleaned)
            => /\ call.valid_rows = <<>>
               /\ Len(call.failed_rows) = 1
               /\ call.failed_rows[1].reason # ""
       /\ (~SchemaRejects(call.cleaned) /\ ~SchemaUnsure(call.cleaned))
            => /\ Len(call.valid_rows) = 1
               /\ call.failed_rows = <<>>

\* C21: a raw record that fails validation before and after remediation
\* produces exactly one rejected record, whose raw payload is the record as
\* it was received from upstream.
C21_RejectedPayloadIsRaw ==
    (/\ call.op = "record" /\ call.phase = "processed" /\ call.first_failed
     /\ SchemaRejects(call.item) /\ SchemaRejects(call.cleaned))
    => /\ Len(call.failed_rows) = 1
       /\ call.failed_rows[1].raw_data = call.item

-----------------------------------------------------------------------------
(* The remediation sweep.                                                  *)

\* A step of remediate_failed_rows (the fan-in does not move)
SweepStep == fanin' = fanin /\ call'.op = "sweep"

\* C22: a sweep handles the rejected records one by one and returns: for
\* each of them either the canonical row is inserted and the rejected record
\* deleted in one commit, or the attempt is rolled back and the record
\* stays; the canonical rows a sweep adds are as many as the rejected
\* records it removes.
C22_SweepAtomicity ==
    [][SweepStep
       => /\ ~call'.raised
          /\ Len(db'.stop_searches) - Len(db.stop_searches)
               = call'.remediated_count
          /\ Len(db.failed_rows) - Len(db'.failed_rows)
               = call'.remediated_count]_vars

\* C23: when the remediation or insertion of one rejected record fails, the
\* sweep goes on to every later rejected record and returns, and what it
\* remediated before stays committed: every rejected record in the table is
\* attempted.
C23_SweepIsolation ==
    [][SweepStep
       => /\ ~call'.raised
          /\ call'.attempted = Len(db.failed_rows)
          /\ \A k \in 1..Len(db.stop_searches) :
                db'.stop_searches[k] = db.stop_searches[k]]_vars

-----------------------------------------------------------------------------
(* The idle fetch unit and the set-up of a job run.                        *)

\* C24: a fetch unit called without a partition list whose availability
\* query failed, or for which no available partition exceeds the watermark,
\* returns the empty result without raising: it selects and requests no
\* partition, writes no file, changes no row and is not retried.
C24_IdleIsNotFailure ==
    [][\A f \in Forces :
          (/\ units[f].state = "queued"
           /\ units[f].dates.null
           /\ units'[f] # units[f]
           /\ \/ ~units'[f].last.available
              \/ \A m \in upstream[f] : m <= WatermarkOf(db, f))
          => /\ units'[f].state = "returned"
             /\ units'[f].result = NullResult
             /\ units'[f].retries = units[f].retries
             /\ units'[f].selected = <<>>
             /\ units'[f].last.selected = <<>>
             /\ files' = files
             /\ db' = db]_vars

\* One force returned idle because the availability query failed although
\* a partition was published, the other because its only available
\* partition is the one of its watermark
C24_Witness ==
    \E f, g \in Forces :
       /\ units[f].state = "returned" /\ units[g].state = "returned"
       /\ units[f].last.kind = "None" /\ units[g].last.kind = "None"
       /\ ~units[f].last.available /\ upstream[f] # {}
       /\ WatermarkOf(db, f) = 0
       /\ units[g].last.available /\ upstream[g] = {WatermarkOf(db, g)}
       /\ units[f].retries = 0 /\ units[g].retries = 0
       /\ \A p \in Paths : ~files[p].exists

-----------------------------------------------------------------------------
(* The paths of the bulk loader.                                           *)

LoadDone == load.phase = "done" /\ load.out.path \in {"full", "chunked"}

\* The rows of the COPY calls that succeeded
RECURSIVE RowsCopied(_)
RowsCopied(calls) ==
    IF calls = <<>> THEN 0
    ELSE (IF Head(calls).ok THEN Head(calls).n ELSE 0) + RowsCopied(Tail(calls))

\* The rows the call added to its target table
RowsAdded == Len(db[load.table]) - Len(load.before[load.table])

\* C26: in the chunked path of one load call every batch whose COPY
\* succeeded is in the store after the call, whatever fails later in the
\* same call: a failed batch is rolled back alone, and a later error does
\* not undo an earlier successful batch.
C26_BatchIndependence ==
    (LoadDone /\ load.out.path = "chunked")
    => RowsAdded = RowsCopied(Tail(load.out.calls))

\* The position of a line in its file
LineNo(line) == IF "n" \in DOMAIN line THEN line.n ELSE line.raw_data.n

Splits == load.out.splits

RECURSIVE SumSeq(_)
SumSeq(s) == IF s = <<>> THEN 0 ELSE Head(s) + SumSeq(Tail(s))

\* The sub-batches are contiguous and cover the batch
Covers(split) == SumSeq(split.parts) = split.n

\* No row was handed to _handle_failed_row: every COPY of a single row
\* made by _insert_batch succeeded
NoRowFailed ==
    \A k \in 2..Len(load.out.calls) :
       load.out.calls[k].n = 1 => load.out.calls[k].ok

\* C28 as stated: every failing batch of more than one row is split into
\* ten contiguous sub-batches of roughly equal size, each retried on its
\* own; a batch whose sub-batches all succeed quarantines no row.
C28_SplitInTen ==
    (LoadDone /\ load.out.path = "chunked")
    => /\ \A k \in 1..Len(Splits) :
             /\ Covers(Splits[k])
             /\ Len(Splits[k].parts) = 10
             /\ \A i, j \in 1..Len(Splits[k].parts) :
                   Splits[k].parts[i] - Splits[k].parts[j] \in {-1, 0, 1}
       /\ NoRowFailed => load.out.quar = <<>> /\ load.out.dropped = <<>>

\* C28, qualified: a failing batch of n > 1 rows is split into contiguous
\* sub-batches of max(1, n div 10) rows, the last one possibly shorter, each
\* retried on its own: exactly ten when n is a multiple of 10 (1000 -> 100
\* -> 10 -> 1), n sub-batches of one row when n < 20, and otherwise between
\* 10 and 19; a batch whose sub-batches all succeed quarantines no row.
C28_SplitShape ==
    (LoadDone /\ load.out.path = "chunked")
    => /\ \A k \in 1..Len(Splits) :
             LET n == Splits[k].n
                 parts == Splits[k].parts
                 c == IF n \div 10 >= 1 THEN n \div 10 ELSE 1
             IN /\ n > 1
                /\ Covers(Splits[k])
                /\ \A i \in 1..(Len(parts) - 1) : parts[i] = c
                /\ parts[Len(parts)] \in 1..c
                /\ n % 10 = 0 => Len(parts) = 10
                /\ n < 20 => Len(parts) = n
                /\ n >= 20 => Len(parts) \in 10..19
       /\ NoRowFailed => load.out.quar = <<>> /\ load.out.dropped = <<>>

\* A batch of 1000 rows with one rejected row was split 1000 -> 100 -> 10
\* -> 1, and a batch of 1000 well-formed rows whose COPY failed was split
\* into ten sub-batches that all succeeded and quarantined nothing
C28_Witness ==
    /\ LoadDone
    /\ load.out.path = "chunked"
    /\ Len(InputLines) = 2000
    /\ Cardinality(BadLines) = 1
    /\ Len(Splits) = 4
    /\ Splits[1] = [n |-> 1000, parts |-> [i \in 1..10 |-> 100]]
    /\ Splits[2] = [n |-> 100, parts |-> [i \in 1..10 |-> 10]]
    /\ Splits[3] = [n |-> 10, parts |-> [i \in 1..10 |-> 1]]
    /\ Splits[4] = [n |-> 1000, parts |-> [i \in 1..10 |-> 100]]
    /\ RowsAdded = 1999

-----------------------------------------------------------------------------
(* Validation of a page.                                                   *)

\* The number of rows of a list that are for the record at index i
RowsFor(rows, i) == Cardinality({k \in 1..Len(rows) : rows[k].idx = i})

\* C29: every raw record of a fetched page ends up in exactly one of the
\* valid list and the rejected list, once; the sizes of the two lists sum
\* to the size of the page.
C29_RecordConservation ==
    (call.op = "page" /\ call.phase = "processed")
    => /\ \A i \in 1..Len(call.data) :
             RowsFor(call.valid_rows, i) + RowsFor(call.failed_rows, i) = 1
       /\ Len(call.valid_rows) + Len(call.failed_rows) = Len(call.data)

\* A page of three records: one valid at once, one valid after remediation,
\* one rejected
C29_Witness ==
    /\ call.op = "page"
    /\ call.phase = "processed"
    /\ Len(call.data) = 3
    /\ call.data[1].datetime = BadDatetime
    /\ call.data[2].involved_person = ""
    /\ call.data[3].type = "Vehicle search"
    /\ Len(call.failed_rows) = 1
    /\ call.failed_rows[1].idx = 1
    /\ Len(call.valid_rows) = 2
    /\ call.valid_rows[1].idx = 3
    /\ call.valid_rows[2].idx = 2

-----------------------------------------------------------------------------
(* The writers of the store.                                               *)

\* A step of insert_data_task
FanInStep == fanin'.runs # fanin.runs

\* C30: fetch units never modify the relational store: in every job run
\* the canonical table and the dead-letter table change only in a step of
\* the fan-in unit (its bulk loads) or of a remediation sweep.
C30_SingleWriter ==
    [][/\ (db' # db) => (FanInStep \/ SweepStep)
       /\ \A f \in Forces : units'[f] # units[f] => db' = db]_vars

\* A fetch unit that selected partitions and fetched every one of them has
\* ended its attempt, and the store holds no row of that force
C30_Witness ==
    \E f \in Forces :
       /\ units[f].last.selected # <<>>
       /\ units[f].last.raised = {}
       /\ units[f].last.kind # "None"
       /\ WatermarkOf(db, f) = 0
       /\ db.failed_rows = <<>>

-----------------------------------------------------------------------------
(* The order of the inputs of the fan-in.                                  *)

Reverse(s) == [i \in 1..Len(s) |-> s[Len(s) + 1 - i]]

\* The multiset of the elements of a sequence
BagOf(s) == [x \in Range(s) |-> Cardinality({i \in 1..Len(s) : s[i] = x})]

\* The same files with the lines of every file in the opposite order, as
\* partitions that completed in another order would leave them
ReversedLines(fs) ==
    [p \in DOMAIN fs |-> [exists |-> fs[p].exists, rows |-> Reverse(fs[p].rows)]]

SameBags(a, b) == \A t \in Tables : BagOf(a[t]) = BagOf(b[t])

\* C31: when the chord calls the fan-in unit, the multiset of rows its
\* execution loads into each target is the same when the results of the fetch units are
\* listed in the opposite order and when the lines of every input file are
\* in the opposite order, under the same faults of the environment.
C31_MergeCommutes ==
    (fanin.state = "waiting" /\ ChordReady(units))
    => \A fault1 \in Faults, fault2 \in Faults :
         LET results == ChordResults(units)
             run == InsertDataTask(db, files, results, fault1, fault2)
             swapped == InsertDataTask(db, files, Reverse(results),
                                       fault1, fault2)
             shuffled == InsertDataTask(db, ReversedLines(files), results,
                                        fault1, fault2)
         IN /\ SameBags(swapped.db, run.db)
            /\ SameBags(shuffled.db, run.db)
            /\ swapped.raised = run.raised
            /\ shuffled.raised = run.raised

\* The fan-in ran once on two non-null results of two rows each, one of
\* them rejected by the store, and loaded rows of both forces
C31_Witness ==
    /\ Len(fanin.runs) = 1
    /\ \A i \in 1..Len(fanin.results) : ~fanin.results[i].null
    /\ Len(HandedTo(fanin.runs[1], StopSearchTable)) = 2 * MaxFileRows
    /\ \A f \in Forces :
          \E k \in 1..Len(db.stop_searches) : db.stop_searches[k].force = f
    /\ Len(db.stop_searches) < 2 * MaxFileRows
    /\ db.failed_rows # <<>>

-----------------------------------------------------------------------------
(* Validation failures and the retry set.                                  *)

\* C32: a partition whose fetch succeeded, its page holding a record that
\* failed validation, is neither reported as failed by the attempt nor
\* requested again by the next attempt of the unit: a retry fetches only
\* partitions whose fetch raised in the attempt before it.
C32_RowScopedFailure ==
    \A f \in Forces :
        /\ Range(units[f].last.failed_dates) \subseteq units[f].last.raised
        /\ (units[f].state = "fetching" /\ units[f].retries > 0)
             => Range(units[f].selected) \subseteq units[f].last.raised

-----------------------------------------------------------------------------
(* The request for the available partitions.                               *)

\* The requests for the available partitions made in the job run so far
AvailabilityQueries ==
    LET n == [i \in 1..Len(ForceSeq) |-> units[ForceSeq[i]].queries]
    IN SumSeq(n)

\* C33: the available partitions are requested from the upstream at most
\* once in a job run, whatever the number of fetch units and of their
\* attempts.
C33_SingleAvailabilityQuery == AvailabilityQueries <= 1

-----------------------------------------------------------------------------
(* The label of a rejected record.                                         *)

-----------------------------------------------------------------------------
(* The older client.                                                       *)

\* C35: a call of PoliceAPIService._make_request that has made its five
\* attempts without a parsed response has raised, also when every attempt
\* was answered with 429: the call never returns without a parsed response.
C35_ExhaustionRaises ==
    (call.op = "legacy" /\ call.phase # "running")
    => /\ call.phase = "returned" => call.result = "json"
       /\ (Len(call.responses) = LegacyMaxRetries /\ call.result # "json")
            => call.phase = "raised"

-----------------------------------------------------------------------------
(* A partition whose request raised.                                       *)

\* The results of the last attempt of a unit for the partitions whose
\* request raised
RaisedResults(unit) ==
    {unit.last.results[i] :
       i \in {k \in 1..Len(unit.last.results) :
                unit.last.results[k].date \in unit.last.raised}}

\* C36: when the request for a partition raises,
\* _fetch_stop_search_data returns an empty valid list and an empty
\* rejected list for it.
C36_FetchReturnsEmpty ==
    \A f \in Forces :
        \A r \in RaisedResults(units[f]) :
            r.kind = "returned" /\ r.valid = <<>> /\ r.failed = <<>>

-----------------------------------------------------------------------------
(* The end of the splitting.                                               *)

\* C37: a call of _insert_batch returns for every batch and every pattern
\* of failing COPY calls, the pattern in which every call fails included:
\* every sub-batch of a failing batch of n > 1 rows holds at least one row
\* and fewer than n, so a batch of n rows costs at most 2n - 1 COPY calls,
\* and every row has been copied or handed to _handle_failed_row.
C37_BisectionTerminates ==
    (load.phase = "returned")
    => LET out == load.out
           n == Len(files[FinalPath].rows)
       IN /\ \A k \in 1..Len(out.splits) :
                /\ out.splits[k].n > 1
                /\ \A j \in 1..Len(out.splits[k].parts) :
                      out.splits[k].parts[j] \in 1..(out.splits[k].n - 1)
          /\ Len(out.calls) \in 1..(2 * n - 1)
          /\ Len(out.copied) + Len(out.quar) + Len(out.dropped) = n

\* A full batch of which every COPY failed: 1000 -> 100 -> 10 -> 1, which
\* is 1 + 10 + 100 + 1000 calls
C37_Witness ==
    /\ load.phase = "returned"
    /\ Len(files[FinalPath].rows) = BATCH_SIZE
    /\ load.out.copied = <<>>
    /\ \A k \in 1..Len(load.out.calls) : ~load.out.calls[k].ok
    /\ Len(load.out.calls) = 1 + SplitFactor + SplitFactor * SplitFactor
                               + BATCH_SIZE

-----------------------------------------------------------------------------
(* A source whose fetch unit gave up.                                      *)

\* The rows of a force handed to the loader by the fan-in of the run
LoadedOf(f) ==
    {r \in UNION {Range(HandedTo(fanin.runs[k], StopSearchTable)) :
                    k \in 1..Len(fanin.runs)} : r.force = f}

-----------------------------------------------------------------------------
(* The attempts of the fan-in unit.                                        *)

\* The executions of the fan-in that handed valid rows to the loader and
\* returned from that load
ValidLoads ==
    {k \in 1..Len(fanin.runs) :
       \E i \in 1..Len(fanin.runs[k].loads) :
          /\ fanin.runs[k].loads[i].table = StopSearchTable
          /\ ~fanin.runs[k].loads[i].raised}

\* C39: over the first execution of the fan-in unit and all its retries,
\* no valid row of the run's output files is committed to the canonical
\* table more than once: the table, empty before the run, never holds the
\* same row twice, and at most one execution loads valid rows.
C39_AtMostOnce ==
    /\ \A i, j \in 1..Len(db.stop_searches) :
          i # j => db.stop_searches[i] # db.stop_searches[j]
    /\ Cardinality(ValidLoads) <= 1

\* The first execution committed the valid rows and then raised in the load
\* of the rejected rows; the unit was retried and ended
C39_Witness ==
    /\ fanin.state = "done"
    /\ Len(fanin.runs) >= 2
    /\ fanin.runs[1].raised
    /\ 1 \in ValidLoads
    /\ Len(db.stop_searches) = 2 * MaxFileRows

-----------------------------------------------------------------------------
(* The output files of concurrent fetch units.                             *)

\* The rejected rows of the pages of these months
FailedRowsOf(force, dates) ==
    Concat([i \in 1..Len(dates) |-> Page(force, dates[i]).failed])

\* C40: in every interleaving of the fetch units, the end of an attempt of
\* the unit of a force changes no file but the two output files of that
\* force, and when all its partitions were fetched the unit's result names
\* files holding exactly the rows it fetched.
C40_OwnFilesOnly ==
    [][\A f \in Forces :
         (units[f].state = "fetching" /\ units'[f].state # "fetching")
         => /\ \A p \in Paths \ {ValidPath(f), FailedPath(f)} :
                  files'[p] = files[p]
            /\ units'[f].last.raised = {}
                 => /\ units'[f].result = PathsResult(f)
                    /\ files'[ValidPath(f)]
                          = File(ValidRowsOf(f, units'[f].last.selected, {}))
                    /\ files'[FailedPath(f)]
                          = File(FailedRowsOf(f, units'[f].last.selected))
      ]_vars

====
